---- MODULE Spec2Model ----
(***************************************************************************)
(* State store and TaskHub scheduler of alchemiscale                       *)
(* (alchemiscale/storage/statestore.py, class Neo4jStore).                 *)
(*                                                                         *)
(* The graph database is modelled by its committed content: the stored     *)
(* AlchemicalNetworks, the TaskHub nodes, the Task nodes with their        *)
(* properties and the ACTIONS relationships with their weights.  Every     *)
(* front-end call that issues one statement per transaction is one atomic  *)
(* action.  claim_taskhub_tasks is the one call whose transaction spans    *)
(* several statements; it is modelled statement by statement, each worker  *)
(* reading the committed content plus its own uncommitted writes and       *)
(* holding the write lock of every node it has written until it commits    *)
(* or rolls back (Neo4j's read-committed isolation).                       *)
(***************************************************************************)
EXTENDS Integers, Sequences, FiniteSets, TLC

\* ---------------------------------------------------------------- bounds
MaxTasks == 2
MaxCount == 2
MaxWeight == 1
MaxPriority == 1
MaxEdges == 2
MaxHubs == 2
MaxObjects == 2

\* ------------------------------------------------------ program constants
\* weight given to a new ACTIONS relationship (SET ar.weight = 1.0)
DefaultWeight == 1
\* priority of a freshly constructed Task()
DefaultPriority == 1

NULL == "null"
\* None where a task key is expected, and where a weight is expected
NoTask == 0
NoWeight == 0 - 1

Workers == {"w1", "w2"}
\* API clients that call create_taskhub
Clients == {"c1", "c2"}
Networks == {"an1", "an2"}
Transformations == {"tf1", "tf2"}
ChemicalSystems == {"cs1", "cs2", "cs3"}
\* the scope of the tests, and a second scope
scope_test == "s1"
Scopes == {"s1", "s2"}
\* result descriptors (ObjectStoreRef) a worker can push
ObjectStoreRefs == {"osr1", "osr2"}
\* the identity classes, and the identifier, the credentials and the
\* scopes of the identity tests; a Scope is (org, campaign, project)
IdentityClasses == {"CredentialedUserIdentity", "CredentialedComputeIdentity"}
Identifiers == {"bill"}
HashedKeys == {"and ted", "a string for a key"}
ScopeValues == {<<"a", "b", "c">>, <<"a", "b", "d">>}

\* DEPENDS_ON edges from a network to its Transformations: the second
\* network is the first one with one edge left out.
network_edges == [n \in Networks |->
                    IF n = "an1" THEN {"tf1", "tf2"} ELSE {"tf2"}]

\* stateA and stateB of each Transformation; one ChemicalSystem is shared
transformation_states == [tf \in Transformations |->
                    IF tf = "tf1" THEN {"cs1", "cs2"} ELSE {"cs2", "cs3"}]

\* weight of a freshly constructed TaskHub, and the value the tests set
DefaultHubWeight == 5
OtherHubWeight == 7
HubWeights == {DefaultHubWeight, OtherHubWeight}

TaskIds == 1..MaxTasks
Weights == 0..MaxWeight
Priorities == 0..MaxPriority
Counts == 1..MaxCount

VARIABLES
    nodes,      \* nodes of the stored gufe objects, indexed by identity
    depends_on, \* DEPENDS_ON relationships between them
    constraints, \* the uniqueness constraints are in place
    entities,   \* nodes of the credentialed entities, indexed by identity
    gufe_attrs, \* the properties of the nodes and of the DEPENDS_ON
                \* relationships of the objects stored attribute by attribute
    taskhubs,   \* per network: weights of the TaskHub nodes that PERFORM it
    results_in, \* Task -> node of an ObjectStoreRef    (RESULTS_IN)
    performs,   \* Task -> Transformation            (PERFORMS)
    extends,    \* Task -> predecessor Task or NULL  (EXTENDS)
    status,     \* Task.status
    priority,   \* Task.priority
    claim,      \* Task.claim
    actions,    \* [hub][task] -> weights of the ACTIONS relationships
    pc,         \* per worker: position inside claim_taskhub_tasks
    tx,         \* per worker: the open claim transaction
    hub_pc,     \* per client: position inside create_taskhub
    hub_tx,     \* per client: the open create_taskhub transaction
    returned,   \* per task: claimants of the claim calls that returned it
    last        \* outcome of the last front-end call

vars == <<nodes, depends_on, constraints, entities, gufe_attrs, taskhubs, results_in,
          performs, extends, status, priority, claim, actions, pc, tx,
          hub_pc, hub_tx, returned, last>>

\* the gufe object graph, the schema and the identities
graphvars == <<nodes, depends_on, constraints, entities, gufe_attrs>>

\* the clients' open create_taskhub calls
clientvars == <<hub_pc, hub_tx>>

dbvars == <<graphvars, taskhubs, results_in, performs, extends, status,
            priority, claim, actions>>

Tasks == DOMAIN status

\* tasks: the list built so far; chosen: the task picked by the last
\* selection; writes: nodes written (and locked) by the transaction;
\* pool0: the waiting tasks of the hub when the call began (kept for the
\* statements about the returned list)
NoTx == [taskhub |-> NULL, count |-> 0, tasks |-> <<>>, chosen |-> NoTask,
         writes |-> {}, pool0 |-> {}]

\* a client's create_taskhub call: network is its argument, created tells
\* that its transaction holds an uncommitted TaskHub node, raced that
\* another client's call for the same network was open at the same time;
\* err and ret are the outcome once the call is over
NoHubTx == [network |-> NULL, created |-> FALSE, raced |-> FALSE,
            err |-> NULL, ret |-> <<>>]

NoCall == [op |-> "none", err |-> NULL, ret |-> <<>>]

\* no object stored attribute by attribute
NoAttrs == [nodes |-> <<>>, relationships |-> {}]

\* the empty database, initialized
Init ==
    /\ nodes = <<>>
    /\ depends_on = {}
    /\ constraints = TRUE
    /\ entities = <<>>
    /\ gufe_attrs = NoAttrs
    /\ taskhubs = [n \in Networks |-> <<>>]
    /\ results_in = {}
    /\ performs = <<>>
    /\ extends = <<>>
    /\ status = <<>>
    /\ priority = <<>>
    /\ claim = <<>>
    /\ actions = [h \in Networks |-> [t \in TaskIds |-> <<>>]]
    /\ pc = [w \in Workers |-> "idle"]
    /\ tx = [w \in Workers |-> NoTx]
    /\ hub_pc = [c \in Clients |-> "idle"]
    /\ hub_tx = [c \in Clients |-> NoHubTx]
    /\ returned = [t \in TaskIds |-> <<>>]
    /\ last = NoCall

\* ------------------------------------------------------------ helpers
\* a call that raised err (NULL: it returned None or a value not recorded)
Called(op, err) == [op |-> op, err |-> err, ret |-> <<>>]

\* a call that returned ret
Returned(op, ret) == [op |-> op, err |-> NULL, ret |-> ret]

\* ------------------------------------------------------ gufe object graph
\* class name of the object with the given gufe key
label_of(k) ==
    IF k \in Networks THEN "AlchemicalNetwork"
    ELSE IF k \in Transformations THEN "Transformation"
    ELSE IF k \in ObjectStoreRefs THEN "ObjectStoreRef"
    ELSE "ChemicalSystem"

\* the GufeTokenizables among the values of the object's shallow dict
dependencies(k) ==
    IF k \in Networks THEN network_edges[k]
    ELSE IF k \in Transformations THEN transformation_states[k]
    ELSE {}

\* ScopedKey(gufe_key, **scope.dict())
ScopedKey(k, scope) == <<k, scope>>

\* node = Node(*labels) with _gufe_key, the scope and _scoped_key
Node(k, scope) == [label |-> label_of(k), gufe_key |-> k, scope |-> scope]

\* _gufe_to_subgraph: the node of the object, the subgraphs of the objects
\* it depends on and a DEPENDS_ON relationship to each of them
RECURSIVE subgraph_keys(_)
subgraph_keys(k) == {k} \cup UNION {subgraph_keys(d) : d \in dependencies(k)}

_gufe_to_subgraph(k, scope) ==
    [nodes |-> {Node(j, scope) : j \in subgraph_keys(k)},
     relationships |-> UNION {{<<ScopedKey(j, scope), ScopedKey(d, scope)>> :
                                  d \in dependencies(j)} : j \in subgraph_keys(k)},
     scoped_key |-> ScopedKey(k, scope)]

\* variant: nodes are matched on the gufe key alone
node_ids_anyscope(ns, sk) ==
    {i \in DOMAIN ns : ns[i].gufe_key = sk[1]}

\* the identities of the stored nodes with the given _scoped_key
node_ids(ns, sk) ==
    {i \in DOMAIN ns : ScopedKey(ns[i].gufe_key, ns[i].scope) = sk}

\* the order in which one statement creates the nodes of a subgraph
RECURSIVE SetToSeq(_)
SetToSeq(S) == IF S = {} THEN <<>>
               ELSE LET x == CHOOSE y \in S : TRUE
                    IN <<x>> \o SetToSeq(S \ {x})

\* variant: tx.create, every node of the subgraph is created
RECURSIVE merge_nodes_create(_, _)
merge_nodes_create(ns, new) ==
    IF new = <<>> THEN ns
    ELSE merge_nodes_create(Append(ns, Head(new)), Tail(new))

\* MERGE (n:GufeTokenizable {_scoped_key: ...}): a node is created only
\* when no stored node has its _scoped_key
RECURSIVE merge_nodes(_, _)
merge_nodes(ns, new) ==
    IF new = <<>> THEN ns
    ELSE LET n == Head(new) IN
         IF node_ids(ns, ScopedKey(n.gufe_key, n.scope)) # {}
           THEN merge_nodes(ns, Tail(new))
           ELSE merge_nodes(Append(ns, n), Tail(new))

\* tx.merge(g, "GufeTokenizable", "_scoped_key"): the nodes, then one
\* relationship per pair of merged nodes
tx_merge(db, g) ==
    LET ns == merge_nodes(db.nodes, SetToSeq(g.nodes)) IN
    [nodes |-> ns,
     depends_on |-> db.depends_on \cup
        UNION {node_ids(ns, r[1]) \X node_ids(ns, r[2]) : r \in g.relationships}]

\* _node_to_gufe: the object of node i, with the objects of the nodes its
\* DEPENDS_ON relationships lead to
RECURSIVE _node_to_gufe(_, _, _)
_node_to_gufe(ns, deps, i) ==
    [gufe_key |-> ns[i].gufe_key,
     depends_on |-> {_node_to_gufe(ns, deps, r[2]) : r \in {q \in deps : q[1] = i}}]

\* get_gufe: _get_node raises KeyError unless exactly one node has the key
get_gufe(ns, deps, sk) ==
    IF Cardinality(node_ids(ns, sk)) = 1
      THEN [err |-> NULL,
            obj |-> _node_to_gufe(ns, deps, CHOOSE i \in node_ids(ns, sk) : TRUE)]
      ELSE [err |-> IF node_ids(ns, sk) = {} THEN "KeyError" ELSE "Neo4JStoreError",
            obj |-> [gufe_key |-> NULL, depends_on |-> {}]]

\* the stored AlchemicalNetworks of the tests' scope
networks ==
    {nodes[i].gufe_key : i \in {j \in DOMAIN nodes :
        nodes[j].label = "AlchemicalNetwork" /\ nodes[j].scope = scope_test}}

\* _get_node finds the Transformation in the tests' scope
transformation_exists(tf) == node_ids(nodes, ScopedKey(tf, scope_test)) # {}

\* query_taskhubs: the networks that have a TaskHub
query_taskhubs == {n \in Networks : taskhubs[n] # <<>>}

\* the node is write-locked by an open transaction
Locked(t) == \E w \in Workers : t \in tx[w].writes

\* SET ar.weight = w on every ACTIONS relationship of the pair
SetAll(ws, w) == [i \in DOMAIN ws |-> w]

\* ------------------------------------------------- networks and taskhubs
\* create_network: the subgraph of the network is merged on _scoped_key
\* and the network's ScopedKey returned
create_network(n, scope) ==
    LET g == _gufe_to_subgraph(n, scope)
        db == tx_merge([nodes |-> nodes, depends_on |-> depends_on], g)
    IN
    /\ nodes' = db.nodes
    /\ depends_on' = db.depends_on
    /\ last' = Returned("create_network", g.scoped_key)
    /\ UNCHANGED <<constraints, entities, gufe_attrs, taskhubs, results_in, performs,
                   extends, status, priority, claim, actions, pc, tx,
                   clientvars, returned>>

\* the ScopedKey of TaskHub(network=str(network)), computed by the caller
taskhub_key(n) == <<"TaskHub", n, scope_test>>

\* variant: the create is never rejected
create_violates_never(n) == FALSE

\* tx.create(subgraph) of a TaskHub node: the uniqueness constraint on
\* _scoped_key rejects it when the network's TaskHub is stored
create_violates(n) == constraints /\ taskhubs[n] # <<>>

\* create_taskhub by one client at a time: _get_node raises KeyError for an
\* unknown network; the create of an existing TaskHub fails, is rolled back
\* and the exception dropped; the key is returned either way
create_taskhub(n) ==
    /\ \A c \in Clients : hub_pc[c] = "idle"
    /\ IF n \notin networks
         THEN /\ last' = Called("create_taskhub", "KeyError")
              /\ UNCHANGED taskhubs
         ELSE /\ IF create_violates(n)
                   THEN UNCHANGED taskhubs
                   ELSE /\ Len(taskhubs[n]) < MaxHubs
                        /\ taskhubs' = [taskhubs EXCEPT ![n] =
                                           Append(@, DefaultHubWeight)]
              /\ last' = Returned("create_taskhub", taskhub_key(n))
    /\ UNCHANGED <<graphvars, results_in, performs, extends, status,
                   priority, claim, actions, pc, tx, clientvars, returned>>

\* the engine errors tx.create can raise
EngineErrors == {"ServiceUnavailable"}

\* create_taskhub when the engine fails during tx.create(subgraph): the
\* exception is raised inside the with block of
\* transaction(ignore_exceptions=True), whose bare except rolls the
\* transaction back and drops every exception, so scoped_key is returned;
\* the exception reaches the caller only when the rollback raises as well
create_taskhub_rollback(n) ==
    /\ \A c \in Clients : hub_pc[c] = "idle"
    /\ IF n \notin networks
         THEN last' = Called("create_taskhub", "KeyError")
         ELSE \/ last' = Returned("create_taskhub", taskhub_key(n))
              \/ \E e \in EngineErrors : last' = Called("create_taskhub", e)
    /\ UNCHANGED <<dbvars, pc, tx, clientvars, returned>>

\* set_taskhub_weight: SET th.weight on every TaskHub of the network
set_taskhub_weight(n, weight) ==
    /\ taskhubs' = [taskhubs EXCEPT ![n] = SetAll(@, weight)]
    /\ last' = Called("set_taskhub_weight", NULL)
    /\ UNCHANGED <<graphvars, results_in, performs, extends, status,
                   priority, claim, actions, pc, tx, clientvars, returned>>

\* create_taskhub, statement by statement, for clients that call it at the
\* same time.  network_node = self._get_node(network)
hub_begin(c, n) ==
    /\ hub_pc[c] = "idle"
    /\ IF n \notin networks
         THEN /\ hub_tx' = [hub_tx EXCEPT ![c] =
                     [NoHubTx EXCEPT !.network = n, !.err = "KeyError"]]
              /\ UNCHANGED hub_pc
         ELSE LET open == {o \in Clients \ {c} :
                             hub_pc[o] # "idle" /\ hub_tx[o].network = n}
              IN
              /\ hub_tx' = [o \in Clients |->
                     IF o = c THEN [NoHubTx EXCEPT !.network = n,
                                                   !.raced = open # {}]
                     ELSE IF o \in open THEN [hub_tx[o] EXCEPT !.raced = TRUE]
                     ELSE hub_tx[o]]
              /\ hub_pc' = [hub_pc EXCEPT ![c] = "create"]
    /\ UNCHANGED <<dbvars, pc, tx, returned, last>>

\* variant: the create does not wait for an uncommitted node of the same key
hub_create_wait_never(c) == FALSE

\* with the constraint in place the create waits while another open
\* transaction holds an uncommitted node with the same _scoped_key
hub_create_wait(c) ==
    /\ constraints
    /\ \E o \in Clients \ {c} :
          hub_tx[o].created /\ hub_tx[o].network = hub_tx[c].network

\* with self.transaction(ignore_exceptions=True) as tx: tx.create(subgraph)
\* A rejected create raises inside the with block: the transaction is
\* rolled back, the exception dropped, and scoped_key returned.
hub_create(c) ==
    /\ hub_pc[c] = "create"
    /\ ~hub_create_wait(c)
    /\ IF create_violates(hub_tx[c].network)
         THEN /\ hub_tx' = [hub_tx EXCEPT ![c].ret = taskhub_key(hub_tx[c].network)]
              /\ hub_pc' = [hub_pc EXCEPT ![c] = "idle"]
              /\ last' = Returned("create_taskhub", taskhub_key(hub_tx[c].network))
         ELSE /\ hub_tx' = [hub_tx EXCEPT ![c].created = TRUE]
              /\ hub_pc' = [hub_pc EXCEPT ![c] = "commit"]
              /\ UNCHANGED last
    /\ UNCHANGED <<dbvars, pc, tx, returned>>

\* self.graph.commit(tx) and return scoped_key
hub_commit(c) ==
    /\ hub_pc[c] = "commit"
    /\ Len(taskhubs[hub_tx[c].network]) < MaxHubs
    /\ taskhubs' = [taskhubs EXCEPT ![hub_tx[c].network] =
                       Append(@, DefaultHubWeight)]
    /\ hub_tx' = [hub_tx EXCEPT ![c].created = FALSE,
                                ![c].ret = taskhub_key(hub_tx[c].network)]
    /\ hub_pc' = [hub_pc EXCEPT ![c] = "idle"]
    /\ last' = Returned("create_taskhub", taskhub_key(hub_tx[c].network))
    /\ UNCHANGED <<graphvars, results_in, performs, extends, status,
                   priority, claim, actions, pc, tx, returned>>

\* get_taskhub: to_subgraph() gives None without a record and a Subgraph of
\* several nodes with several; subscripting either raises TypeError
get_taskhub(n) ==
    IF Len(taskhubs[n]) = 1
      THEN [err |-> NULL, ret |-> taskhub_key(n)]
      ELSE [err |-> "TypeError", ret |-> <<>>]

\* delete_taskhub: the statement "MATCH (th:TaskHub {...}), DETACH DELETE th"
\* is not valid Cypher (comma before DETACH); graph.run raises ClientError
\* and nothing is deleted
delete_taskhub_err(n) ==
    IF get_taskhub(n).err # NULL THEN get_taskhub(n).err ELSE "ClientError"

delete_taskhub(n) ==
    /\ last' = Called("delete_taskhub", delete_taskhub_err(n))
    /\ UNCHANGED <<dbvars, pc, tx, clientvars, returned>>

\* the DEPENDS_ON relationships the object graph defines among nodes ns
relationships_of(ns) ==
    {r \in (DOMAIN ns) \X (DOMAIN ns) :
        /\ ns[r[1]].scope = ns[r[2]].scope
        /\ ns[r[2]].gufe_key \in dependencies(ns[r[1]].gufe_key)}

\* variant: the network is deleted together with everything it depends on
delete_network_cascade(n) ==
    LET gone == subgraph_keys(n)
        keep(x) == ~(x.scope = scope_test /\ x.gufe_key \in gone)
    IN
    /\ nodes' = SelectSeq(nodes, keep)
    /\ depends_on' = relationships_of(nodes')
    /\ taskhubs' = [taskhubs EXCEPT ![n] = <<>>]
    /\ last' = Returned("delete_network", ScopedKey(n, scope_test))
    /\ UNCHANGED <<constraints, entities, gufe_attrs, results_in, performs, extends,
                   status, priority, claim, actions, pc, tx, clientvars,
                   returned>>

\* delete_network: delete_taskhub is called first and raises; the
\* statement that deletes the network node is built but never run
delete_network(n) ==
    /\ last' = Called("delete_network", delete_taskhub_err(n))
    /\ UNCHANGED <<dbvars, pc, tx, clientvars, returned>>

\* a uniqueness constraint cannot be created over duplicates
has_duplicates ==
    \/ \E i, j \in DOMAIN nodes :
          i # j /\ ScopedKey(nodes[i].gufe_key, nodes[i].scope)
                     = ScopedKey(nodes[j].gufe_key, nodes[j].scope)
    \/ \E n \in Networks : Len(taskhubs[n]) > 1

\* initialize: CREATE CONSTRAINT ... IF NOT EXISTS
initialize ==
    /\ IF constraints \/ ~has_duplicates
         THEN /\ constraints' = TRUE
              /\ last' = Called("initialize", NULL)
         ELSE /\ UNCHANGED constraints
              /\ last' = Called("initialize", "ClientError")
    /\ UNCHANGED <<nodes, depends_on, entities, gufe_attrs, taskhubs, results_in,
                   performs, extends, status, priority, claim, actions, pc,
                   tx, clientvars, returned>>

\* reset: every node is deleted and the constraints are dropped
reset ==
    /\ \A c \in Clients : hub_pc[c] = "idle"
    /\ \A w \in Workers : pc[w] = "idle"
    /\ nodes' = <<>>
    /\ depends_on' = {}
    /\ constraints' = FALSE
    /\ entities' = <<>>
    /\ gufe_attrs' = NoAttrs
    /\ taskhubs' = [n \in Networks |-> <<>>]
    /\ results_in' = {}
    /\ performs' = <<>>
    /\ extends' = <<>>
    /\ status' = <<>>
    /\ priority' = <<>>
    /\ claim' = <<>>
    /\ actions' = [h \in Networks |-> [t \in TaskIds |-> <<>>]]
    /\ returned' = [t \in TaskIds |-> <<>>]
    /\ last' = Called("reset", NULL)
    /\ UNCHANGED <<pc, tx, clientvars>>

\* ------------------------------------------------------------------ tasks
\* variant: the nodes of the arguments are not looked up
create_task_unchecked(tf, extend_from) ==
    /\ Len(status) < MaxTasks
    /\ performs' = Append(performs, tf)
    /\ extends' = Append(extends, extend_from)
    /\ status' = Append(status, "waiting")
    /\ priority' = Append(priority, DefaultPriority)
    /\ claim' = Append(claim, NULL)
    /\ last' = Called("create_task", NULL)
    /\ UNCHANGED <<graphvars, taskhubs, results_in, actions, pc, tx,
                   clientvars, returned>>

\* create_task: a new Task node (status 'waiting', default priority, no
\* claim) with PERFORMS to the transformation and EXTENDS to extend_from
\* (_get_node raises KeyError for an unknown transformation or task)
create_task(tf, extend_from) ==
    /\ Len(status) < MaxTasks
    /\ IF \/ ~transformation_exists(tf)
          \/ extend_from # NoTask /\ extend_from \notin Tasks
         THEN /\ last' = Called("create_task", "KeyError")
              /\ UNCHANGED <<performs, extends, status, priority, claim>>
         ELSE /\ performs' = Append(performs, tf)
              /\ extends' = Append(extends, extend_from)
              /\ status' = Append(status, "waiting")
              /\ priority' = Append(priority, DefaultPriority)
              /\ claim' = Append(claim, NULL)
              /\ last' = Called("create_task", NULL)
    /\ UNCHANGED <<graphvars, taskhubs, results_in, actions, pc, tx,
                   clientvars, returned>>

\* set_task_priority: SET t.priority on the Task node (needs its write lock)
set_task_priority(t, p) ==
    /\ t \in Tasks
    /\ ~Locked(t)
    /\ priority' = [priority EXCEPT ![t] = p]
    /\ last' = Called("set_task_priority", NULL)
    /\ UNCHANGED <<graphvars, taskhubs, results_in, performs, extends,
                   status, claim, actions, pc, tx, clientvars, returned>>

\* the label of the node set_task_result stores: the class name of its
\* argument, an ObjectStoreRef
result_label(protocoldagresult) == label_of(protocoldagresult)

\* set_task_result: _get_node raises KeyError for an unknown task; the
\* ObjectStoreRef node is merged on _scoped_key in the task's scope and a
\* RESULTS_IN relationship from the task to each merged node is merged;
\* the ref's ScopedKey is returned
set_task_result(t, protocoldagresult) ==
    /\ IF t \notin Tasks
         THEN /\ last' = Called("set_task_result", "KeyError")
              /\ UNCHANGED <<nodes, results_in>>
         ELSE LET g == _gufe_to_subgraph(protocoldagresult, scope_test)
                  ns == merge_nodes(nodes, SetToSeq(g.nodes)) IN
              /\ nodes' = ns
              /\ results_in' = results_in \cup
                                   ({t} \X node_ids(ns, g.scoped_key))
              /\ last' = Returned("set_task_result", g.scoped_key)
    /\ UNCHANGED <<depends_on, constraints, entities, gufe_attrs, taskhubs, performs,
                   extends, status, priority, claim, actions, pc, tx,
                   clientvars, returned>>

\* the body of each status setter is "...": the call returns None and
\* writes nothing
set_task_status(op, t, new) ==
    /\ last' = Called(op, NULL)
    /\ UNCHANGED <<dbvars, pc, tx, clientvars, returned>>

set_task_waiting(t) == set_task_status("set_task_waiting", t, "waiting")
set_task_running(t) == set_task_status("set_task_running", t, "running")
set_task_complete(t) == set_task_status("set_task_complete", t, "complete")
set_task_error(t) == set_task_status("set_task_error", t, "error")
set_task_cancelled(t) == set_task_status("set_task_cancelled", t, "cancelled")
set_task_invalid(t) == set_task_status("set_task_invalid", t, "invalid")
set_task_deleted(t) == set_task_status("set_task_deleted", t, "deleted")

\* the records of get_task_transformation's query:
\* MATCH (task)-[:PERFORMS]->(trans)
\* OPTIONAL MATCH (task)-[:EXTENDS]->(prev)-[:RESULTS_IN]->(result:ProtocolDAGResult)
\* one per matched result node, one with a null result when there is
\* none, none for an unknown task
task_transformation_q(t) ==
    IF t \notin Tasks THEN {}
    ELSE LET prev == extends[t]
             refs == {nodes[r[2]].gufe_key : r \in {q \in results_in :
                         q[1] = prev /\ nodes[q[2]].label = "ProtocolDAGResult"}}
         IN IF prev = NoTask \/ refs = {}
              THEN {<<performs[t], NULL>>}
              ELSE {<<performs[t], ref>> : ref \in refs}

\* what get_task_transformation raises or returns
task_transformation(t) ==
    LET res == task_transformation_q(t) IN
    IF res = {} THEN [err |-> "KeyError", ret |-> <<>>]
    ELSE IF Cardinality(res) > 1 THEN [err |-> "Neo4JStoreError", ret |-> <<>>]
    ELSE [err |-> NULL, ret |-> CHOOSE r \in res : TRUE]

get_task_transformation(t) ==
    /\ last' = [op |-> "get_task_transformation",
                err |-> task_transformation(t).err,
                ret |-> task_transformation(t).ret]
    /\ UNCHANGED <<dbvars, pc, tx, clientvars, returned>>

\* ------------------------------------------------------- queue_taskhub_tasks
\* variant: the task is matched without the path to the hub's network
queue_match_anynetwork(t, h) ==
    /\ h \in query_taskhubs
    /\ t \in Tasks

\* MATCH (th:TaskHub)-[:PERFORMS]->(an)
\* MATCH (tn:Task)-[:PERFORMS*]->(tf:Transformation)<-[:DEPENDS_ON]-(an)
\* the rows the two MATCH clauses produce for one task (none or one)
queue_match(t, h) ==
    /\ h \in query_taskhubs
    /\ t \in Tasks
    /\ performs[t] \in network_edges[h]

\* OPTIONAL MATCH (tn)-[:EXTENDS]->(other_task:Task)
\* WHERE NOT (th)-[:ACTIONS*]->(tn) AND other_task.status = 'complete'
\* The WHERE belongs to the OPTIONAL MATCH: where it fails other_task is
\* bound to null and the row is kept.
queue_other_task(acts, t, h) ==
    IF /\ extends[t] # NoTask
       /\ acts[h][t] = <<>>
       /\ status[extends[t]] = "complete"
    THEN extends[t] ELSE NoTask

\* variant: the relationship is created with weight 0
queue_create_zero(acts, t, h) ==
    [acts EXCEPT ![h][t] = Append(@, 0)]

\* CREATE (th)-[ar:ACTIONS]->(tn) SET ar.weight = 1.0, once per row
queue_create(acts, t, h) ==
    [acts EXCEPT ![h][t] = Append(@, DefaultWeight)]

\* number of ACTIONS relationships in the database
RECURSIVE SumLen(_, _)
SumLen(f, S) == IF S = {} THEN 0
                ELSE LET x == CHOOSE y \in S : TRUE
                     IN Len(f[x[1]][x[2]]) + SumLen(f, S \ {x})
NumEdges(acts) == SumLen(acts, Networks \X TaskIds)

\* the loop over the tasks, one committed transaction per task; it stops
\* at the first task for which the query returned nothing
RECURSIVE queue_loop(_, _, _)
queue_loop(acts, ts, h) ==
    IF ts = <<>> THEN [actions |-> acts, err |-> NULL]
    ELSE IF ~queue_match(Head(ts), h)
        THEN [actions |-> acts, err |-> "ValueError"]
        ELSE queue_loop(queue_create(acts, Head(ts), h), Tail(ts), h)

queue_taskhub_tasks(ts, h) ==
    LET r == queue_loop(actions, ts, h) IN
    /\ NumEdges(r.actions) <= MaxEdges
    /\ actions' = r.actions
    /\ last' = Called("queue_taskhub_tasks", r.err)
    /\ UNCHANGED <<graphvars, taskhubs, results_in, performs, extends,
                   status, priority, claim, pc, tx, clientvars, returned>>

\* dequeue_taskhub_tasks: the statement of the first task,
\* "MATCH (th:TaskHub {...})-[:ACTIONS]->(task:Task {...}), DETACH DELETE
\* task", is not valid Cypher (comma before DETACH): tx.run raises
\* ClientError, the transaction is rolled back and nothing is removed
dequeue_taskhub_tasks(ts, h) ==
    /\ last' = Called("dequeue_taskhub_tasks",
                      IF ts = <<>> THEN NULL ELSE "ClientError")
    /\ UNCHANGED <<dbvars, pc, tx, clientvars, returned>>

\* ---------------------------------------------------------- set_task_weights
\* tasks is a dict {task: weight} (kind "dict", weight must be None) or a
\* list of tasks (kind "list", weight must be given); wmap holds the weight
\* each task of the call is to get
\* variant: the weights are written whatever the combination of arguments
set_task_weights_unchecked(kind, wmap, h, weight) ==
    LET w(t) == IF kind = "dict" THEN wmap[t] ELSE weight IN
    /\ actions' = [actions EXCEPT ![h] =
           [t \in TaskIds |-> IF t \in DOMAIN wmap
                                THEN SetAll(@[t], w(t)) ELSE @[t]]]
    /\ last' = Called("set_task_weights", NULL)
    /\ UNCHANGED <<graphvars, taskhubs, results_in, performs, extends,
                   status, priority, claim, pc, tx, clientvars, returned>>

\* variant: the pattern is merged instead of matched, so a missing ACTIONS
\* relationship is created
set_task_weights_merge(kind, wmap, h, weight) ==
    LET bad == IF kind = "dict" THEN weight # NoWeight ELSE weight = NoWeight
        w(t) == IF kind = "dict" THEN wmap[t] ELSE weight
    IN
    /\ IF bad
         THEN /\ last' = Called("set_task_weights", "ValueError")
              /\ UNCHANGED actions
         ELSE /\ actions' = [actions EXCEPT ![h] =
                    [t \in TaskIds |->
                        IF t \in DOMAIN wmap
                          THEN IF @[t] = <<>> /\ NumEdges(actions) < MaxEdges
                                 THEN <<w(t)>> ELSE SetAll(@[t], w(t))
                          ELSE @[t]]]
              /\ last' = Called("set_task_weights", NULL)
    /\ UNCHANGED <<graphvars, taskhubs, results_in, performs, extends,
                   status, priority, claim, pc, tx, clientvars, returned>>

set_task_weights(kind, wmap, h, weight) ==
    LET bad == IF kind = "dict" THEN weight # NoWeight ELSE weight = NoWeight
        w(t) == IF kind = "dict" THEN wmap[t] ELSE weight
    IN
    /\ IF bad
         THEN /\ last' = Called("set_task_weights", "ValueError")
              /\ UNCHANGED actions
         ELSE /\ actions' = [actions EXCEPT ![h] =
                    [t \in TaskIds |-> IF t \in DOMAIN wmap
                                         THEN SetAll(@[t], w(t)) ELSE @[t]]]
              /\ last' = Called("set_task_weights", NULL)
    /\ UNCHANGED <<graphvars, taskhubs, results_in, performs, extends,
                   status, priority, claim, pc, tx, clientvars, returned>>

\* ------------------------------------------------------------ read queries
\* get_taskhub_tasks: one record per ACTIONS relationship of the hub
get_taskhub_tasks(h) ==
    UNION {{<<t, i>> : i \in DOMAIN actions[h][t]} : t \in Tasks}

\* get_taskhub_unclaimed_tasks: WHERE task.claim IS NULL
get_taskhub_unclaimed_tasks(h) ==
    {e \in get_taskhub_tasks(h) : claim[e[1]] = NULL}

\* get_task_weights: the dict built from the records of each task; a task
\* with several ACTIONS relationships keeps the weight of the last record
get_task_weights(ts, h) ==
    {f \in [{t \in ts : t \in Tasks /\ actions[h][t] # <<>>} -> Weights] :
        \A t \in DOMAIN f : \E i \in DOMAIN actions[h][t] : f[t] = actions[h][t][i]}

\* -------------------------------------------------------- claim_taskhub_tasks
Min(S) == CHOOSE x \in S : \A y \in S : x <= y

\* variant: the transaction reads the committed status only
tx_status_committed(w, t) == status[t]

\* what the open transaction of worker w reads: committed content plus its
\* own writes
tx_status(w, t) == IF t \in tx[w].writes THEN "running" ELSE status[t]

\* variant: the WHERE on the status is missing
waiting_tasks_anystatus(w, h) ==
    {t \in Tasks : actions[h][t] # <<>>}

\* MATCH (th)-[:ACTIONS]->(waiting_task) WHERE waiting_task.status = 'waiting'
waiting_tasks(w, h) ==
    {t \in Tasks : actions[h][t] # <<>> /\ tx_status(w, t) = "waiting"}

\* variant: the pool holds the waiting tasks of every priority
taskpool_q_anypriority(w, h) ==
    UNION {{[parent_task |-> t, weight |-> actions[h][t][i], idx |-> i] :
               i \in DOMAIN actions[h][t]} : t \in waiting_tasks(w, h)}

\* variant: the minimum is taken over the waiting tasks of positive weight
\* when there are any
taskpool_q_skipzero(w, h) ==
    LET waiting == waiting_tasks(w, h)
        positive == {t \in waiting :
                       \E i \in DOMAIN actions[h][t] : actions[h][t][i] > 0}
        base == IF positive = {} THEN waiting ELSE positive
    IN
    IF waiting = {} THEN {}
    ELSE LET min_priority == Min({priority[t] : t \in base}) IN
         UNION {{[parent_task |-> t, weight |-> actions[h][t][i], idx |-> i] :
                    i \in DOMAIN actions[h][t]} :
                t \in {u \in waiting : priority[u] = min_priority}}

\* taskpool_q: the ACTIONS relationships to the waiting tasks of minimum
\* priority, as records (parent_task, weight); idx tells relationships of
\* one pair apart
taskpool_q(w, h) ==
    LET waiting == waiting_tasks(w, h) IN
    IF waiting = {} THEN {}
    ELSE LET min_priority == Min({priority[t] : t \in waiting}) IN
         UNION {{[parent_task |-> t, weight |-> actions[h][t][i], idx |-> i] :
                    i \in DOMAIN actions[h][t]} :
                t \in {u \in waiting : priority[u] = min_priority}}

\* variant: a uniform choice among the tasks of the pool
_select_task_from_taskpool_uniform(taskpool) ==
    LET tasks == {r.parent_task : r \in taskpool}
    IN  IF \A r \in taskpool : r.weight = 0 THEN {NoTask} ELSE tasks

\* _select_task_from_taskpool: the values the function can return.
\* tasks_and_weights keeps one weight per task (the last record iterated,
\* in the iteration order of the subgraph's relationship set); all weights
\* zero gives None, otherwise numpy's choice returns a task of positive
\* probability.
_select_task_from_taskpool(taskpool) ==
    LET tasks == {r.parent_task : r \in taskpool}
        dicts == {f \in [tasks -> Weights] :
                    \A t \in tasks : \E r \in taskpool :
                        r.parent_task = t /\ r.weight = f[t]}
    IN  UNION {IF \A t \in tasks : f[t] = 0 THEN {NoTask}
               ELSE {t \in tasks : f[t] > 0} : f \in dicts}

\* length of the list reached: leave the loop
NextPc(w, tasks) == IF Len(tasks) = tx[w].count THEN "commit" ELSE "taskpool"

\* with self.transaction() as tx:  (graph.begin)
claim_begin(w, h, count) ==
    /\ pc[w] = "idle"
    /\ pc' = [pc EXCEPT ![w] = "taskpool"]
    /\ tx' = [tx EXCEPT ![w] = [NoTx EXCEPT !.taskhub = h, !.count = count,
                                  !.pool0 = waiting_tasks(w, h)]]
    /\ UNCHANGED <<dbvars, clientvars, returned, last>>

\* taskpool = tx.run(taskpool_q); None is appended for an empty pool,
\* otherwise chosen_one = _select_task_from_taskpool(taskpool)
claim_taskpool(w) ==
    /\ pc[w] = "taskpool"
    /\ LET h == tx[w].taskhub
           taskpool == taskpool_q(w, h)
       IN IF taskpool = {}
            THEN LET tasks == Append(tx[w].tasks, NoTask) IN
                 /\ tx' = [tx EXCEPT ![w].tasks = tasks]
                 /\ pc' = [pc EXCEPT ![w] = NextPc(w, tasks)]
            ELSE \E chosen_one \in _select_task_from_taskpool(taskpool) :
                 /\ tx' = [tx EXCEPT ![w].chosen = chosen_one]
                 /\ pc' = [pc EXCEPT ![w] = "claim"]
    /\ UNCHANGED <<dbvars, clientvars, returned, last>>

\* variant: the statement is committed on its own
_generate_claim_query_autocommit(w) ==
    /\ pc[w] = "claim"
    /\ LET t == tx[w].chosen
           tasks == Append(tx[w].tasks, t)
       IN /\ t # NoTask => \A o \in Workers \ {w} : t \notin tx[o].writes
          /\ status' = [u \in Tasks |-> IF u = t THEN "running" ELSE status[u]]
          /\ claim' = [u \in Tasks |-> IF u = t THEN w ELSE claim[u]]
          /\ tx' = [tx EXCEPT ![w].tasks = tasks, ![w].chosen = NoTask]
          /\ pc' = [pc EXCEPT ![w] = NextPc(w, tasks)]
    /\ UNCHANGED <<graphvars, taskhubs, results_in, performs, extends,
                   priority, actions, clientvars, returned, last>>

\* _generate_claim_query: MATCH (t:Task {_scoped_key: chosen}) SET
\* t.status = 'running', t.claim = claimant.  The key 'None' matches no
\* node; the SET waits for the node's write lock.
_generate_claim_query(w) ==
    /\ pc[w] = "claim"
    /\ LET t == tx[w].chosen
           tasks == Append(tx[w].tasks, t)
       IN /\ t # NoTask => \A o \in Workers \ {w} : t \notin tx[o].writes
          /\ tx' = [tx EXCEPT ![w].tasks = tasks, ![w].chosen = NoTask,
                              ![w].writes = IF t = NoTask THEN @ ELSE @ \cup {t}]
          /\ pc' = [pc EXCEPT ![w] = NextPc(w, tasks)]
    /\ UNCHANGED <<dbvars, clientvars, returned, last>>

\* variant: the commit also removes the ACTIONS relationships of the hub
\* to the claimed tasks
claim_commit_dequeue(w) ==
    /\ pc[w] = "commit"
    /\ status' = [t \in Tasks |-> IF t \in tx[w].writes THEN "running"
                                    ELSE status[t]]
    /\ claim' = [t \in Tasks |-> IF t \in tx[w].writes THEN w ELSE claim[t]]
    /\ actions' = [actions EXCEPT ![tx[w].taskhub] =
                      [t \in TaskIds |-> IF t \in tx[w].writes THEN <<>>
                                          ELSE @[t]]]
    /\ returned' = [t \in TaskIds |->
                      IF \E i \in DOMAIN tx[w].tasks : tx[w].tasks[i] = t
                        THEN Append(returned[t], w) ELSE returned[t]]
    /\ tx' = [tx EXCEPT ![w] = NoTx]
    /\ pc' = [pc EXCEPT ![w] = "idle"]
    /\ UNCHANGED <<graphvars, taskhubs, results_in, performs, extends,
                   priority, clientvars, last>>

\* graph.commit(tx) and return of the list of ScopedKeys
claim_commit(w) ==
    /\ pc[w] = "commit"
    /\ status' = [t \in Tasks |-> IF t \in tx[w].writes THEN "running"
                                    ELSE status[t]]
    /\ claim' = [t \in Tasks |-> IF t \in tx[w].writes THEN w ELSE claim[t]]
    /\ returned' = [t \in TaskIds |->
                      IF \E i \in DOMAIN tx[w].tasks : tx[w].tasks[i] = t
                        THEN Append(returned[t], w) ELSE returned[t]]
    /\ tx' = [tx EXCEPT ![w] = NoTx]
    /\ pc' = [pc EXCEPT ![w] = "idle"]
    /\ UNCHANGED <<graphvars, taskhubs, results_in, performs, extends,
                   priority, actions, clientvars, last>>

\* a failure inside the with block (engine error, lock wait given up):
\* graph.rollback(tx) and the exception is raised to the caller
claim_rollback(w) ==
    /\ pc[w] # "idle"
    /\ tx' = [tx EXCEPT ![w] = NoTx]
    /\ pc' = [pc EXCEPT ![w] = "idle"]
    /\ UNCHANGED <<dbvars, clientvars, returned, last>>

\* the elements of a list
Range(seq) == {seq[i] : i \in DOMAIN seq}

\* ------------------------------------------------------------------ codec
\* A value of a shallow dict: kind is its Python type ("scalar", "list",
\* "tuple", "dict", or "gufe" for a GufeTokenizable), of the type of its
\* elements ("str" or "gufe"), items its elements and, for a dict, keys
\* the key of each.  A GufeTokenizable is written as its gufe key, the
\* hash of its content.
Value(kind, of, keys, items) ==
    [kind |-> kind, of |-> of, keys |-> keys, items |-> items]

Scalar(x) == Value("scalar", "str", <<>>, <<x>>)

Gufe(obj) == Value("gufe", "gufe", <<>>, <<obj>>)

\* the objects of the codec workload: two without dependencies, and one
\* per kind of attribute value
GufeLeaves == {"leaf1", "leaf2"}

GufeComposites ==
    {"o_scalar", "o_list", "o_list0", "o_tuple", "o_tuple0", "o_dict",
     "o_dict0", "o_gufe", "o_gufedict", "o_gufelist"}

\* objects that hold the same object twice: under two attributes, under
\* two keys of a dict, and at two positions of a list
GufeRepeats == {"o_gufe2", "o_gufedict2", "o_gufelist2"}

GufeObjects == GufeLeaves \cup GufeComposites

attr_value(k) ==
    CASE k = "o_scalar" -> Scalar("v")
      [] k = "o_list" -> Value("list", "str", <<>>, <<"a", "b">>)
      [] k = "o_list0" -> Value("list", "str", <<>>, <<>>)
      [] k = "o_tuple" -> Value("tuple", "str", <<>>, <<"a", "b">>)
      [] k = "o_tuple0" -> Value("tuple", "str", <<>>, <<>>)
      [] k = "o_dict" -> Value("dict", "str", <<"a", "b">>, <<"1", "2">>)
      [] k = "o_dict0" -> Value("dict", "str", <<>>, <<>>)
      [] k = "o_gufe" -> Gufe("leaf1")
      [] k = "o_gufedict" ->
            Value("dict", "gufe", <<"a", "b">>, <<"leaf1", "leaf2">>)
      [] k = "o_gufelist" -> Value("list", "gufe", <<>>, <<"leaf2", "leaf1">>)
      [] k = "o_gufe2" -> Gufe("leaf1")
      [] k = "o_gufedict2" ->
            Value("dict", "gufe", <<"a", "b">>, <<"leaf1", "leaf1">>)
      [] k = "o_gufelist2" -> Value("list", "gufe", <<>>, <<"leaf1", "leaf1">>)

\* obj.to_shallow_dict() of the object with the given gufe key
to_shallow_dict(k) ==
    IF k \in GufeLeaves THEN [name |-> Scalar(k)]
    ELSE IF k = "o_gufe2"
      THEN [name |-> Scalar(k), attr |-> attr_value(k), attr2 |-> attr_value(k)]
    ELSE [name |-> Scalar(k), attr |-> attr_value(k)]

\* two values are equal: for a dict the order of the keys does not count
SameValue(v, w) ==
    /\ v.kind = w.kind
    /\ v.of = w.of
    /\ IF v.kind = "dict"
         THEN /\ Len(v.keys) = Len(w.keys)
              /\ \A i \in DOMAIN v.keys : \E j \in DOMAIN w.keys :
                    v.keys[i] = w.keys[j] /\ v.items[i] = w.items[j]
         ELSE v.items = w.items

\* two shallow dicts are equal
SameDict(d, e) ==
    /\ DOMAIN d = DOMAIN e
    /\ \A key \in DOMAIN d : SameValue(d[key], e[key])

\* GufeTokenizable.from_shallow_dict(dct): the object with that content
from_shallow_dict(dct) ==
    IF \E k \in GufeObjects \cup GufeRepeats : SameDict(to_shallow_dict(k), dct)
      THEN CHOOSE k \in GufeObjects \cup GufeRepeats :
               SameDict(to_shallow_dict(k), dct)
      ELSE "other"

\* the properties every node gets besides the attributes
Reserved == {"_json_props", "_gufe_key", "_org", "_campaign", "_project",
             "_scoped_key"}

\* d with d[k] = v
Put(d, k, v) == [x \in DOMAIN d \cup {k} |-> IF x = k THEN v ELSE d[x]]

\* Relationship.type("DEPENDS_ON")(node, node_, attribute=key, ...): by is
\* "key", "index" or "single" for a relationship with neither property
Rel(start, end, attribute, by, key, index) ==
    [start |-> start, end |-> end, attribute |-> attribute, by |-> by,
     key |-> key, index |-> index]

\* json.dumps(value): a string; a tuple is written as an array
json_dumps(value) ==
    [value EXCEPT !.kind = IF @ = "dict" THEN "json object" ELSE "json array"]

\* json.loads(string): an object is read as a dict, an array as a list
json_loads(string) ==
    [string EXCEPT !.kind = IF @ = "json object" THEN "dict" ELSE "list"]

\* what one attribute adds to the node and to the subgraph: prop tells
\* whether node[key] is set, json whether it is json-encoded, rels are the
\* relationships to the nodes of the values, err what the branch raises
\* (value[0] of an empty list or tuple is an IndexError)
encode_attr(k, key, value) ==
    LET none == [err |-> NULL, prop |-> FALSE, json |-> FALSE, stored |-> value,
                 rels |-> {}]
    IN
    CASE value.kind = "dict" ->
           IF value.of = "gufe" \/ value.items = <<>>
             THEN [none EXCEPT !.rels =
                     {Rel(k, value.items[i], key, "key", value.keys[i], 0) :
                         i \in DOMAIN value.items}]
             ELSE [none EXCEPT !.prop = TRUE, !.json = TRUE,
                               !.stored = json_dumps(value)]
      [] value.kind = "list" ->
           IF value.items = <<>> THEN [none EXCEPT !.err = "IndexError"]
           ELSE IF value.of = "str" THEN [none EXCEPT !.prop = TRUE]
           ELSE [none EXCEPT !.rels =
                   {Rel(k, value.items[i], key, "index", "", i - 1) :
                       i \in DOMAIN value.items}]
      [] value.kind = "tuple" ->
           IF value.items = <<>> THEN [none EXCEPT !.err = "IndexError"]
           ELSE IF value.of = "str" THEN none
           ELSE [none EXCEPT !.prop = TRUE, !.json = TRUE,
                             !.stored = json_dumps(value)]
      [] value.kind = "gufe" ->
           [none EXCEPT !.rels = {Rel(k, value.items[1], key, "single", "", 0)}]
      [] OTHER -> [none EXCEPT !.prop = TRUE]

\* the node _gufe_to_subgraph builds for the object: its properties, the
\* relationships to the nodes of its values, and the first error raised
gufe_node(k) ==
    LET sdct == to_shallow_dict(k)
        enc == [key \in DOMAIN sdct |-> encode_attr(k, key, sdct[key])]
        failed == {key \in DOMAIN sdct : enc[key].err # NULL}
        set == {key \in DOMAIN sdct : enc[key].prop}
        json == {key \in DOMAIN sdct : enc[key].json}
    IN
    [err |-> IF failed = {} THEN NULL
             ELSE enc[CHOOSE key \in failed : TRUE].err,
     props |-> [p \in Reserved \cup set |->
                  IF p = "_json_props"
                    THEN Value("list", "str", <<>>, SetToSeq(json))
                  ELSE IF p = "_gufe_key" THEN Scalar(k)
                  ELSE IF p = "_scoped_key" THEN Scalar(k \o "-" \o scope_test)
                  ELSE IF p \in Reserved THEN Scalar(scope_test)
                  ELSE enc[p].stored],
     rels |-> UNION {enc[key].rels : key \in DOMAIN sdct}]

\* the subgraph of the object: its node and relationships and the
\* subgraphs of the objects of its values
RECURSIVE gufe_subgraph(_)
gufe_subgraph(k) ==
    LET n == gufe_node(k)
        subs == {gufe_subgraph(r.end) : r \in n.rels}
        failed == {g \in subs : g.err # NULL}
    IN
    [err |-> IF n.err # NULL THEN n.err
             ELSE IF failed # {} THEN (CHOOSE g \in failed : TRUE).err
             ELSE NULL,
     keys |-> {k} \cup UNION {g.keys : g \in subs},
     rels |-> n.rels \cup UNION {g.rels : g \in subs}]

\* the composites that are stored
StoredComposites == DOMAIN gufe_attrs.nodes \ GufeLeaves

\* storing an object as create_network stores a network: the subgraph is
\* built (an error is raised before the transaction begins) and merged on
\* _scoped_key
merge_gufe(k) ==
    LET g == gufe_subgraph(k) IN
    /\ Cardinality(StoredComposites \cup ({k} \ GufeLeaves)) <= MaxObjects
    /\ IF g.err # NULL
         THEN /\ last' = Called("merge_gufe", g.err)
              /\ UNCHANGED gufe_attrs
         ELSE /\ gufe_attrs' =
                   [nodes |-> [j \in DOMAIN gufe_attrs.nodes \cup g.keys |->
                                 IF j \in g.keys THEN gufe_node(j).props
                                 ELSE gufe_attrs.nodes[j]],
                    relationships |-> gufe_attrs.relationships \cup g.rels]
              /\ last' = Called("merge_gufe", NULL)
    /\ UNCHANGED <<nodes, depends_on, constraints, entities, taskhubs,
                   results_in, performs, extends, status, priority, claim,
                   actions, pc, tx, clientvars, returned>>

\* g.edges(node): the DEPENDS_ON relationships that leave the node
edges_of(k) == {r \in gufe_attrs.relationships : r.start = k}

\* the orders in which the relationships of the node can be traversed
Orders(k) ==
    {o \in [1..Cardinality(edges_of(k)) -> edges_of(k)] :
        \A i, j \in DOMAIN o : i # j => o[i] # o[j]}

\* g.add_edge(start_node, end_node, **dict(relationship)) on a DiGraph: the
\* graph has one edge per pair of nodes; adding an edge that exists
\* updates its data with the given properties
add_edge(g, r) ==
    IF \E i \in DOMAIN g : g[i].end = r.end
      THEN [i \in DOMAIN g |->
              IF g[i].end = r.end
                THEN [g[i] EXCEPT
                        !.attribute = r.attribute,
                        !.key = IF r.by = "key" THEN r.key ELSE @,
                        !.index = IF r.by = "index" THEN r.index ELSE @,
                        !.by = IF "key" \in {@, r.by} THEN "key"
                               ELSE IF "index" \in {@, r.by} THEN "index"
                               ELSE "single"]
                ELSE g[i]]
      ELSE Append(g, r)

\* _subgraph_to_networkx for the relationships of one node, added in the
\* given order: g.edges(node), one edge per node they lead to
RECURSIVE add_edges(_, _)
add_edges(g, order) ==
    IF order = <<>> THEN g ELSE add_edges(add_edge(g, Head(order)), Tail(order))

_subgraph_to_networkx(order) == add_edges(<<>>, order)

\* sorted(pairs, key=lambda x: x[0]): a stable sort on the index
RECURSIVE sorted_from(_, _)
sorted_from(pairs, i) ==
    IF \A n \in DOMAIN pairs : pairs[n][1] < i THEN <<>>
    ELSE SelectSeq(pairs, LAMBDA x : x[1] = i) \o sorted_from(pairs, i + 1)

sorted(pairs) == sorted_from(pairs, 0)

\* dct[attribute][key] = obj
put_key(value, key, obj) ==
    IF key \in Range(value.keys)
      THEN [value EXCEPT !.items =
              [i \in DOMAIN @ |-> IF value.keys[i] = key THEN obj ELSE @[i]]]
      ELSE [value EXCEPT !.keys = Append(@, key), !.items = Append(@, obj)]

\* _node_to_gufe attribute by attribute.  inject is the loop over the
\* relationships, in the order given; node_to_dct runs it once per
\* property of the node (the loop over the relationships is inside the
\* loop over dict(node).items()), decodes the json properties, sorts the
\* attributes filled from indexed relationships and removes the reserved
\* properties.  The nodes the relationships lead to are decoded in turn.
RECURSIVE inject(_, _), node_to_dct(_, _), repeat(_, _, _)
inject(dct, order) ==
    IF order = <<>> THEN dct
    ELSE LET e == Head(order)
             a == e.attribute
             obj == from_shallow_dict(node_to_dct(e.end, SetToSeq(edges_of(e.end))))
             new ==
               CASE e.by = "key" ->
                      put_key(IF a \in DOMAIN dct THEN dct[a]
                              ELSE Value("dict", "gufe", <<>>, <<>>), e.key, obj)
                 [] e.by = "index" ->
                      LET cur == IF a \in DOMAIN dct THEN dct[a]
                                 ELSE Value("list", "gufe", <<>>, <<>>)
                      IN [cur EXCEPT !.items = Append(@, <<e.index, obj>>)]
                 [] OTHER -> Gufe(obj)
         IN inject(Put(dct, a, new), Tail(order))

repeat(dct, order, n) ==
    IF n = 0 THEN dct ELSE repeat(inject(dct, order), order, n - 1)

node_to_dct(k, order) ==
    LET node == gufe_attrs.nodes[k]
        json_props == Range(node["_json_props"].items)
        dct0 == [p \in DOMAIN node |->
                   IF p \in json_props THEN json_loads(node[p]) ELSE node[p]]
        dep_edges == _subgraph_to_networkx(order)
        dct1 == repeat(dct0, dep_edges, Cardinality(DOMAIN node))
        postprocess == {e.attribute : e \in {r \in Range(dep_edges) : r.by = "index"}}
    IN [p \in DOMAIN dct1 \ Reserved |->
          IF p \in postprocess
            THEN [dct1[p] EXCEPT !.items =
                    [i \in DOMAIN sorted(@) |-> sorted(@)[i][2]]]
            ELSE dct1[p]]

\* get_gufe with the attributes: _get_node raises KeyError for a key that
\* is not stored; the shallow dict decoded from the node is returned
get_gufe_attrs(k, order) ==
    /\ IF k \notin DOMAIN gufe_attrs.nodes
         THEN last' = Called("get_gufe", "KeyError")
         ELSE last' = Returned("get_gufe", <<node_to_dct(k, order)>>)
    /\ UNCHANGED <<dbvars, pc, tx, clientvars, returned>>

\* ------------------------------------------------------------- identities
\* str(scope), as it is written into the statements
scope_str(scope) == scope[1] \o "-" \o scope[2] \o "-" \o scope[3]

\* Scope.from_str: the Scope whose string it is
Scope_from_str(x) == CHOOSE scope \in ScopeValues : scope_str(scope) = x

\* the scopes lists an entity is created with
ScopeLists == {<<>>, <<scope_str(<<"a", "b", "d">>)>>}

\* MATCH (n:cls {identifier: identifier})
entity_ids(es, cls, identifier) ==
    {i \in DOMAIN es : es[i].cls = cls /\ es[i].identifier = identifier}

\* Node("CredentialedEntity", cls, **entity.dict())
EntityNode(cls, identifier, hashed_key, scopes) ==
    [cls |-> cls, identifier |-> identifier, hashed_key |-> hashed_key,
     scopes |-> scopes]

\* variant: tx.create, a node is created whatever is stored
merge_entity_create(es, node) == Append(es, node)

\* tx.merge(node, primary_label=cls, primary_key="identifier"): the nodes
\* with the identifier get the properties of node; one is created when
\* there is none
merge_entity(es, node) ==
    IF entity_ids(es, node.cls, node.identifier) = {}
      THEN Append(es, node)
      ELSE [i \in DOMAIN es |->
              IF i \in entity_ids(es, node.cls, node.identifier)
                THEN node ELSE es[i]]

\* everything but the identities and the outcome of the call
objvars == <<nodes, depends_on, constraints, gufe_attrs, taskhubs, results_in, performs,
             extends, status, priority, claim, actions, pc, tx, clientvars,
             returned>>

create_credentialed_entity(cls, identifier, hashed_key, scopes) ==
    /\ entities' = merge_entity(entities,
                                EntityNode(cls, identifier, hashed_key, scopes))
    /\ last' = Called("create_credentialed_entity", NULL)
    /\ UNCHANGED objvars

\* what get_credentialed_entity raises or returns: cls(**dict(node)) of
\* the one matched node
credentialed_entity(es, identifier, cls) ==
    LET ids == entity_ids(es, cls, identifier) IN
    IF ids = {} THEN [err |-> "KeyError", ret |-> <<>>]
    ELSE IF Cardinality(ids) > 1
      THEN [err |-> "Neo4JStoreError", ret |-> <<>>]
    ELSE LET n == es[CHOOSE i \in ids : TRUE] IN
         [err |-> NULL,
          ret |-> <<EntityNode(cls, n.identifier, n.hashed_key, n.scopes)>>]

get_credentialed_entity(identifier, cls) ==
    /\ last' = [op |-> "get_credentialed_entity",
                err |-> credentialed_entity(entities, identifier, cls).err,
                ret |-> credentialed_entity(entities, identifier, cls).ret]
    /\ UNCHANGED <<entities, objvars>>

\* list_credentialed_entities: the identifier of every node of the class
list_credentialed_entities(cls) ==
    /\ last' = Returned("list_credentialed_entities",
                        SetToSeq({entities[i].identifier :
                            i \in {j \in DOMAIN entities : entities[j].cls = cls}}))
    /\ UNCHANGED <<entities, objvars>>

\* remove_credentialed_identity: DETACH DELETE of the matched nodes
remove_credentialed_identity(identifier, cls) ==
    /\ entities' = SelectSeq(entities,
           LAMBDA n : ~(n.cls = cls /\ n.identifier = identifier))
    /\ last' = Called("remove_credentialed_identity", NULL)
    /\ UNCHANGED objvars

\* variant: the scope is appended whether or not the list has it
add_scope_append(identifier, cls, scope) ==
    /\ entities' = [i \in DOMAIN entities |->
          IF i \in entity_ids(entities, cls, identifier)
            THEN [entities[i] EXCEPT !.scopes = Append(@, scope_str(scope))]
            ELSE entities[i]]
    /\ last' = Called("add_scope", NULL)
    /\ UNCHANGED objvars

\* add_scope: MATCH (n:cls {identifier}) WHERE NONE(x IN n.scopes WHERE
\* x = 'scope') SET n.scopes = n.scopes + 'scope'
add_scope(identifier, cls, scope) ==
    /\ entities' = [i \in DOMAIN entities |->
          IF /\ i \in entity_ids(entities, cls, identifier)
             /\ scope_str(scope) \notin Range(entities[i].scopes)
            THEN [entities[i] EXCEPT !.scopes = Append(@, scope_str(scope))]
            ELSE entities[i]]
    /\ last' = Called("add_scope", NULL)
    /\ UNCHANGED objvars

\* the list list_scopes builds: Scope.from_str of every string of n.scopes
\* of every matched node
RECURSIVE scopes_of_records(_, _)
scopes_of_records(es, ids) ==
    IF ids = {} THEN <<>>
    ELSE LET i == Min(ids) IN
         [k \in DOMAIN es[i].scopes |-> Scope_from_str(es[i].scopes[k])]
            \o scopes_of_records(es, ids \ {i})

list_scopes_q(es, identifier, cls) ==
    scopes_of_records(es, entity_ids(es, cls, identifier))

list_scopes(identifier, cls) ==
    /\ last' = Returned("list_scopes", list_scopes_q(entities, identifier, cls))
    /\ UNCHANGED <<entities, objvars>>

\* variant: the list is emptied
remove_scope_clear(identifier, cls, scope) ==
    /\ entities' = [i \in DOMAIN entities |->
          IF i \in entity_ids(entities, cls, identifier)
            THEN [entities[i] EXCEPT !.scopes = <<>>]
            ELSE entities[i]]
    /\ last' = Called("remove_scope", NULL)
    /\ UNCHANGED objvars

\* remove_scope: MATCH (n:cls {identifier})
\* SET n.scopes = [scope IN n.scopes WHERE scope <> 'scope']
remove_scope(identifier, cls, scope) ==
    /\ entities' = [i \in DOMAIN entities |->
          IF i \in entity_ids(entities, cls, identifier)
            THEN [entities[i] EXCEPT !.scopes =
                     SelectSeq(@, LAMBDA x : x # scope_str(scope))]
            ELSE entities[i]]
    /\ last' = Called("remove_scope", NULL)
    /\ UNCHANGED objvars

\* ------------------------------------------------------------ specifications
\* The store is checked under several workloads.  The actions are the same;
\* a workload fixes the database the clients start from and the calls they
\* issue.

TaskLists == {<<t>> : t \in Tasks} \cup {<<t, u>> : t \in Tasks, u \in Tasks}

WeightMaps == UNION {[S -> Weights] : S \in SUBSET Tasks \ {{}}}

\* the argument combinations of set_task_weights: a dict alone, a list with
\* a scalar, and the two rejected combinations
WeightCalls ==
    {[kind |-> "dict", wmap |-> m, weight |-> NoWeight] : m \in WeightMaps}
    \cup {[kind |-> "list", wmap |-> [t \in S |-> w], weight |-> w] :
             S \in SUBSET Tasks \ {{}}, w \in Weights}
    \cup {[kind |-> "dict", wmap |-> [t \in {u} |-> w], weight |-> w] :
             u \in Tasks, w \in Weights}
    \cup {[kind |-> "list", wmap |-> [t \in {u} |-> 0], weight |-> NoWeight] :
             u \in Tasks}

\* Queue workload: the networks are stored; clients create hubs and tasks
\* (also extending tasks), queue them and set weights, and one worker
\* claims.
Next ==
    \/ \E n \in Networks : create_taskhub(n)
    \/ \E tf \in Transformations, p \in Tasks \cup {NoTask} : create_task(tf, p)
    \/ \E ts \in TaskLists, h \in Networks : queue_taskhub_tasks(ts, h)
    \/ \E c \in WeightCalls, h \in Networks :
          set_task_weights(c.kind, c.wmap, h, c.weight)
    \/ \E h \in Networks : claim_begin("w1", h, 1)
    \/ claim_taskpool("w1")
    \/ _generate_claim_query("w1")
    \/ claim_commit("w1")

\* the graph after create_network of both networks in the tests' scope
Stored ==
    tx_merge(tx_merge([nodes |-> <<>>, depends_on |-> {}],
                      _gufe_to_subgraph("an1", scope_test)),
             _gufe_to_subgraph("an2", scope_test))

InitStore ==
    /\ nodes = Stored.nodes
    /\ depends_on = Stored.depends_on
    /\ constraints = TRUE
    /\ entities = <<>>
    /\ gufe_attrs = NoAttrs
    /\ taskhubs = [n \in Networks |-> <<>>]
    /\ results_in = {}
    /\ performs = <<>>
    /\ extends = <<>>
    /\ status = <<>>
    /\ priority = <<>>
    /\ claim = <<>>
    /\ actions = [h \in Networks |-> [t \in TaskIds |-> <<>>]]
    /\ pc = [w \in Workers |-> "idle"]
    /\ tx = [w \in Workers |-> NoTx]
    /\ hub_pc = [c \in Clients |-> "idle"]
    /\ hub_tx = [c \in Clients |-> NoHubTx]
    /\ returned = [t \in TaskIds |-> <<>>]
    /\ last = NoCall

Spec == InitStore /\ [][Next]_vars

\* the database of the scheduler tests: both networks with their hubs and
\* MaxTasks tasks of a transformation that both networks contain
InitHubs ==
    /\ nodes = Stored.nodes
    /\ depends_on = Stored.depends_on
    /\ constraints = TRUE
    /\ entities = <<>>
    /\ gufe_attrs = NoAttrs
    /\ taskhubs = [n \in Networks |-> <<DefaultHubWeight>>]
    /\ results_in = {}
    /\ performs = [t \in TaskIds |-> "tf2"]
    /\ extends = [t \in TaskIds |-> NoTask]
    /\ status = [t \in TaskIds |-> "waiting"]
    /\ priority = [t \in TaskIds |-> DefaultPriority]
    /\ claim = [t \in TaskIds |-> NULL]
    /\ actions = [h \in Networks |-> [t \in TaskIds |-> <<>>]]
    /\ pc = [w \in Workers |-> "idle"]
    /\ tx = [w \in Workers |-> NoTx]
    /\ hub_pc = [c \in Clients |-> "idle"]
    /\ hub_tx = [c \in Clients |-> NoHubTx]
    /\ returned = [t \in TaskIds |-> <<>>]
    /\ last = NoCall

\* Scheduling workload: tasks are queued, weights and priorities change,
\* and one worker claims up to MaxCount tasks per call.
NextSched ==
    \/ \E t \in Tasks, h \in Networks : queue_taskhub_tasks(<<t>>, h)
    \/ \E c \in WeightCalls, h \in Networks :
          set_task_weights(c.kind, c.wmap, h, c.weight)
    \/ \E t \in Tasks, p \in Priorities : set_task_priority(t, p)
    \/ \E h \in Networks, count \in Counts : claim_begin("w1", h, count)
    \/ claim_taskpool("w1")
    \/ _generate_claim_query("w1")
    \/ claim_commit("w1")

SpecSched == InitHubs /\ [][NextSched]_vars

\* Weight workload: tasks are queued on the two hubs and the weights of
\* tasks and hubs and the priorities of tasks are set.
NextWeights ==
    \/ \E t \in Tasks, h \in Networks : queue_taskhub_tasks(<<t>>, h)
    \/ \E c \in WeightCalls, h \in Networks :
          set_task_weights(c.kind, c.wmap, h, c.weight)
    \/ \E n \in Networks, weight \in HubWeights : set_taskhub_weight(n, weight)
    \/ \E t \in Tasks, p \in Priorities : set_task_priority(t, p)

SpecWeights == InitHubs /\ [][NextWeights]_vars

\* Dispatch workload: one worker claims from either hub, one call after the
\* other, while tasks are queued, their weights and priorities are set,
\* results are pushed and the status setters are called.
NextDispatch ==
    \/ \E t \in Tasks, h \in Networks : queue_taskhub_tasks(<<t>>, h)
    \/ \E t \in Tasks, h \in Networks, weight \in Weights :
          set_task_weights("list", [u \in {t} |-> weight], h, weight)
    \/ \E t \in Tasks, p \in Priorities : set_task_priority(t, p)
    \/ \E t \in Tasks : set_task_result(t, "osr1")
    \/ \E t \in Tasks : set_task_waiting(t)
    \/ \E t \in Tasks : set_task_error(t)
    \/ \E h \in Networks, count \in Counts : claim_begin("w1", h, count)
    \/ claim_taskpool("w1")
    \/ _generate_claim_query("w1")
    \/ claim_commit("w1")

SpecDispatch == InitHubs /\ [][NextDispatch]_vars

\* Creation workload: from the empty database, networks and hubs are
\* created, tasks are created for known and unknown transformations and
\* predecessors and queued, and one worker claims.
NextCreate ==
    \/ \E n \in Networks : create_network(n, scope_test)
    \/ \E n \in Networks : create_taskhub(n)
    \/ \E tf \in Transformations, p \in TaskIds \cup {NoTask} : create_task(tf, p)
    \/ \E t \in Tasks, h \in Networks : queue_taskhub_tasks(<<t>>, h)
    \/ \E h \in Networks : claim_begin("w1", h, 1)
    \/ claim_taskpool("w1")
    \/ _generate_claim_query("w1")
    \/ claim_commit("w1")

SpecCreate == Init /\ [][NextCreate]_vars

\* Claim workload: the workers claim concurrently while tasks are queued.
NextClaim ==
    \/ \E t \in Tasks, h \in Networks : queue_taskhub_tasks(<<t>>, h)
    \/ \E w \in Workers, h \in Networks, count \in Counts : claim_begin(w, h, count)
    \/ \E w \in Workers : claim_taskpool(w)
    \/ \E w \in Workers : _generate_claim_query(w)
    \/ \E w \in Workers : claim_commit(w)
    \/ \E w \in Workers : claim_rollback(w)

SpecClaim == InitHubs /\ [][NextClaim]_vars

\* the database after both networks got their hubs; no task yet
InitTasks ==
    /\ nodes = Stored.nodes
    /\ depends_on = Stored.depends_on
    /\ constraints = TRUE
    /\ entities = <<>>
    /\ gufe_attrs = NoAttrs
    /\ taskhubs = [n \in Networks |-> <<DefaultHubWeight>>]
    /\ results_in = {}
    /\ performs = <<>>
    /\ extends = <<>>
    /\ status = <<>>
    /\ priority = <<>>
    /\ claim = <<>>
    /\ actions = [h \in Networks |-> [t \in TaskIds |-> <<>>]]
    /\ pc = [w \in Workers |-> "idle"]
    /\ tx = [w \in Workers |-> NoTx]
    /\ hub_pc = [c \in Clients |-> "idle"]
    /\ hub_tx = [c \in Clients |-> NoHubTx]
    /\ returned = [t \in TaskIds |-> <<>>]
    /\ last = NoCall

\* Task workload: tasks are created (also extending ones), queued and
\* dequeued, one worker claims a task, pushes results and reports the
\* task's status, and the transformation of a task is fetched.
NextTask ==
    \/ \E p \in Tasks \cup {NoTask} : create_task("tf2", p)
    \/ \E t \in Tasks : queue_taskhub_tasks(<<t>>, "an1")
    \/ \E t \in Tasks, h \in Networks : dequeue_taskhub_tasks(<<t>>, h)
    \/ claim_begin("w1", "an1", 1)
    \/ claim_taskpool("w1")
    \/ _generate_claim_query("w1")
    \/ claim_commit("w1")
    \/ \E t \in TaskIds, ref \in ObjectStoreRefs : set_task_result(t, ref)
    \/ \E t \in Tasks : set_task_waiting(t)
    \/ \E t \in Tasks : set_task_running(t)
    \/ \E t \in Tasks : set_task_complete(t)
    \/ \E t \in Tasks : set_task_error(t)
    \/ \E t \in Tasks : set_task_cancelled(t)
    \/ \E t \in Tasks : set_task_invalid(t)
    \/ \E t \in Tasks : set_task_deleted(t)
    \/ \E t \in TaskIds : get_task_transformation(t)

SpecTask == InitTasks /\ [][NextTask]_vars

\* Network workload: one client at a time stores networks in two scopes,
\* creates and deletes hubs and networks, and resets and initializes the
\* database.
NextNet ==
    \/ \E n \in Networks, scope \in Scopes : create_network(n, scope)
    \/ \E n \in Networks : create_taskhub(n)
    \/ \E n \in Networks, weight \in HubWeights : set_taskhub_weight(n, weight)
    \/ \E n \in Networks : delete_taskhub(n)
    \/ \E n \in Networks : delete_network(n)
    \/ initialize
    \/ reset

SpecNet == Init /\ [][NextNet]_vars

\* Failure workload: one client at a time stores networks, creates hubs and
\* sets their weights, and resets and initializes the database, while the
\* engine can fail during the insert of a hub.
NextFailure ==
    \/ \E n \in Networks : create_network(n, scope_test)
    \/ \E n \in Networks : create_taskhub(n)
    \/ \E n \in Networks : create_taskhub_rollback(n)
    \/ \E n \in Networks, weight \in HubWeights : set_taskhub_weight(n, weight)
    \/ initialize
    \/ reset

SpecFailure == Init /\ [][NextFailure]_vars

\* Hub workload: the networks are stored and the database initialized; two
\* clients call create_taskhub at the same time while hub weights are set.
NextHub ==
    \/ \E c \in Clients, n \in Networks : hub_begin(c, n)
    \/ \E c \in Clients : hub_create(c)
    \/ \E c \in Clients : hub_commit(c)
    \/ \E n \in Networks, weight \in HubWeights : set_taskhub_weight(n, weight)

SpecHub == InitStore /\ [][NextHub]_vars

\* Identity workload: on the empty, initialized database user and compute
\* identities are created, created again, fetched, listed and removed, and
\* scopes are added to them, listed and removed.
NextIdentity ==
    \/ \E cls \in IdentityClasses, identifier \in Identifiers,
          hashed_key \in HashedKeys, scopes \in ScopeLists :
          create_credentialed_entity(cls, identifier, hashed_key, scopes)
    \/ \E cls \in IdentityClasses, identifier \in Identifiers :
          get_credentialed_entity(identifier, cls)
    \/ \E cls \in IdentityClasses : list_credentialed_entities(cls)
    \/ \E cls \in IdentityClasses, identifier \in Identifiers :
          remove_credentialed_identity(identifier, cls)
    \/ \E cls \in IdentityClasses, identifier \in Identifiers,
          scope \in ScopeValues : add_scope(identifier, cls, scope)
    \/ \E cls \in IdentityClasses, identifier \in Identifiers :
          list_scopes(identifier, cls)
    \/ \E cls \in IdentityClasses, identifier \in Identifiers,
          scope \in ScopeValues : remove_scope(identifier, cls, scope)

SpecIdentity == Init /\ [][NextIdentity]_vars

\* Codec workload: objects with one attribute of each kind are stored on
\* the empty database and read back, the relationships of the node being
\* traversed in any order.
NextCodec ==
    \/ \E k \in GufeObjects : merge_gufe(k)
    \/ \E k \in GufeObjects :
          \E order \in IF k \in DOMAIN gufe_attrs.nodes THEN Orders(k) ELSE {<<>>} :
             get_gufe_attrs(k, order)

SpecCodec == Init /\ [][NextCodec]_vars

\* Repeated-reference workload: objects that hold embedded objects, some of
\* them the same object twice, are stored and loaded.
RepeatObjects == GufeLeaves \cup GufeRepeats \cup {"o_gufe", "o_gufedict"}

NextRepeat ==
    \/ \E k \in RepeatObjects : merge_gufe(k)
    \/ \E k \in RepeatObjects :
          \E order \in IF k \in DOMAIN gufe_attrs.nodes THEN Orders(k) ELSE {<<>>} :
             get_gufe_attrs(k, order)

SpecRepeat == Init /\ [][NextRepeat]_vars

\* ------------------------------------------------------------------ claims
\* the step in which worker w runs taskpool_q and selects a task
Selects(w) == pc[w] = "taskpool" /\ pc'[w] = "claim"

\* every ACTIONS relationship from hub h to task t has weight 0
ZeroWeight(h, t) == \A i \in DOMAIN actions[h][t] : actions[h][t][i] = 0

\* the waiting tasks of minimum priority on hub h, as worker w reads them
Tier(w, h) ==
    {t \in waiting_tasks(w, h) :
        \A u \in waiting_tasks(w, h) : priority[t] <= priority[u]}

\* C1: at-most-once dispatch under concurrency: no task is returned by more
\* than one claim call, and a claim set by one worker is never overwritten
\* with another worker's claimant string.
C1_AtMostOnce ==
    [][/\ \A t \in TaskIds : Len(returned'[t]) <= 1
       /\ \A t \in Tasks : claim[t] # NULL => claim'[t] = claim[t]]_vars

\* C2: in every state a task's claim is non-null iff its status is
\* 'running'; a task returned by a claim call is running with claim equal
\* to that call's claimant; a task never returned has claim null.
C2_ClaimIffRunning ==
    \A t \in Tasks :
        /\ claim[t] # NULL <=> status[t] = "running"
        /\ \A i \in DOMAIN returned[t] :
               status[t] = "running" /\ claim[t] = returned[t][i]
        /\ returned[t] = <<>> => claim[t] = NULL

\* C3: strict priority: the task a claim selects is a waiting task of the
\* hub whose priority is the minimum over the hub's waiting tasks at the
\* moment of selection.
C3_StrictPriority ==
    [][\A w \in Workers :
         (Selects(w) /\ tx'[w].chosen # NoTask) =>
            LET h == tx[w].taskhub
                c == tx'[w].chosen
            IN /\ c \in waiting_tasks(w, h)
               /\ \A u \in waiting_tasks(w, h) : priority[c] <= priority[u]]_vars

\* a task was selected while a waiting task of larger priority value and
\* positive weight was queued on the same hub
C3_Witness ==
    \E w \in Workers :
        /\ pc[w] = "claim"
        /\ tx[w].chosen # NoTask
        /\ \E u \in waiting_tasks(w, tx[w].taskhub) :
              /\ priority[u] > priority[tx[w].chosen]
              /\ ~ZeroWeight(tx[w].taskhub, u)

\* C4: a task whose ACTIONS weight on the hub is 0 is never selected (and
\* so never returned) by a claim on that hub.
C4_ZeroWeightNeverClaimed ==
    [][\A w \in Workers :
         (Selects(w) /\ tx'[w].chosen # NoTask) =>
            ~ZeroWeight(tx[w].taskhub, tx'[w].chosen)]_vars

\* a task was selected while a waiting task of weight 0 stood in the same
\* priority tier of the hub
C4_Witness ==
    \E w \in Workers :
        /\ pc[w] = "claim"
        /\ tx[w].chosen # NoTask
        /\ \E u \in waiting_tasks(w, tx[w].taskhub) :
              /\ u # tx[w].chosen
              /\ priority[u] = priority[tx[w].chosen]
              /\ ZeroWeight(tx[w].taskhub, u)

\* C5: tier freeze: when every waiting task at the hub's minimum priority
\* has weight 0 the iteration selects nothing, appends null and changes no
\* task, also when waiting tasks of positive weight exist at larger
\* priority values.
C5_TierFreeze ==
    [][\A w \in Workers :
         /\ ( /\ pc[w] = "taskpool"
              /\ tx'[w] # tx[w]
              /\ Tier(w, tx[w].taskhub) # {}
              /\ \A t \in Tier(w, tx[w].taskhub) : ZeroWeight(tx[w].taskhub, t) )
            => /\ pc'[w] = "claim"
               /\ tx'[w].chosen = NoTask
               /\ UNCHANGED <<status, claim>>
         /\ ( /\ pc[w] = "claim"
              /\ tx[w].chosen = NoTask
              /\ tx'[w] # tx[w] )
            => /\ tx'[w].tasks = Append(tx[w].tasks, NoTask)
               /\ tx'[w].writes = tx[w].writes
               /\ UNCHANGED <<status, claim>>]_vars

\* an iteration selected nothing although a waiting task of positive
\* weight is queued on the hub at a larger priority value
C5_Witness ==
    \E w \in Workers :
        LET h == tx[w].taskhub IN
        /\ pc[w] = "claim"
        /\ tx[w].chosen = NoTask
        /\ Tier(w, h) # {}
        /\ \A t \in Tier(w, h) : ZeroWeight(h, t)
        /\ \E u \in waiting_tasks(w, h) : u \notin Tier(w, h) /\ ~ZeroWeight(h, u)

\* the entries of a list that are tasks
Entries(tasks) == {tasks[i] : i \in DOMAIN tasks} \ {NoTask}

Distinct(tasks) ==
    \A i, j \in DOMAIN tasks :
        (i # j /\ tasks[i] # NoTask) => tasks[i] # tasks[j]

Listed(h) == {e[1] : e \in get_taskhub_tasks(h)}

\* C7: membership: queueing a task whose Transformation is not in the
\* hub's network raises and creates no ACTIONS relationship from that hub
\* to that task; every ACTIONS relationship connects a hub to a task whose
\* Transformation belongs to the hub's network.
C7_Membership ==
    [][/\ \A h \in Networks : \A t \in Listed(h)' :
             performs'[t] \in network_edges[h]
       /\ \A h \in Networks : \A ts \in TaskLists :
             ( /\ last'.op = "queue_taskhub_tasks"
               /\ \E i \in DOMAIN ts : performs[ts[i]] \notin network_edges[h]
               /\ queue_taskhub_tasks(ts, h) )
             => /\ last'.err = "ValueError"
                /\ \A t \in Tasks : performs[t] \notin network_edges[h] =>
                       actions'[h][t] = <<>>]_vars

\* a queue call has just failed for a task whose Transformation is not in
\* the network of an existing hub, and the hub has no relationship to it
C7_Witness ==
    /\ last = Called("queue_taskhub_tasks", "ValueError")
    /\ \E h \in query_taskhubs : \E t \in Tasks :
          /\ performs[t] \notin network_edges[h]
          /\ actions[h][t] = <<>>
          /\ \E u \in Tasks : actions[h][u] # <<>>

\* C8: there is at most one ACTIONS relationship between a hub and a task,
\* so get_taskhub_tasks lists each queued task once.
C8_SingleEdge ==
    \A h \in Networks : \A t \in Tasks :
        Cardinality({e \in get_taskhub_tasks(h) : e[1] = t}) <= 1

\* C9: a task created with extend_from = p has no ACTIONS relationship
\* while p's status is not 'complete'.
C9_ExtendsComplete ==
    \A h \in Networks : \A t \in Tasks :
        (extends[t] # NoTask /\ status[extends[t]] # "complete") =>
            t \notin Listed(h)

IsPrefix(a, b) ==
    /\ Len(a) <= Len(b)
    /\ \A i \in DOMAIN a : a[i] = b[i]

\* C10: queueing tasks that extend nothing and whose Transformation is in
\* the hub's network raises no error; get_taskhub_tasks then lists the
\* tasks listed before together with the queued ones (no other call
\* changes the listing); a new relationship has weight 1.0 and a weight
\* changes only by set_task_weights.
C10_QueueDefaultWeight ==
    [][\A h \in Networks :
         /\ \A ts \in TaskLists :
               ( /\ last'.op = "queue_taskhub_tasks"
                 /\ h \in query_taskhubs
                 /\ \A i \in DOMAIN ts :
                       /\ extends[ts[i]] = NoTask
                       /\ performs[ts[i]] \in network_edges[h]
                 /\ queue_taskhub_tasks(ts, h) )
               => /\ last'.err = NULL
                  /\ Listed(h)' = Listed(h) \cup {ts[i] : i \in DOMAIN ts}
         /\ last'.op # "queue_taskhub_tasks" => Listed(h)' = Listed(h)
         /\ last'.op # "set_task_weights" =>
               \A t \in Tasks :
                  /\ IsPrefix(actions[h][t], actions'[h][t])
                  /\ \A i \in DOMAIN actions'[h][t] \ DOMAIN actions[h][t] :
                        actions'[h][t][i] = DefaultWeight]_vars

\* a queue call has just succeeded and the hub lists a task with weight 1.0
\* next to a task whose weight set_task_weights has changed
C10_Witness ==
    /\ last = Called("queue_taskhub_tasks", NULL)
    /\ \E h \in query_taskhubs : \E t, u \in Listed(h) :
          /\ extends[t] = NoTask
          /\ actions[h][t] = <<DefaultWeight>>
          /\ actions[h][u] = <<0>>

\* the stored nodes with the given label
labelled(ns, label) == {i \in DOMAIN ns : ns[i].label = label}

\* C11: while the uniqueness constraints are in place every network has at
\* most one TaskHub; create_taskhub for a network that has a hub raises
\* nothing, returns the hub's ScopedKey, creates no node and leaves the hub
\* as it is, the weight set by set_taskhub_weight included.
C11_OneTaskHub ==
    [][/\ constraints' => \A n \in Networks : Len(taskhubs'[n]) <= 1
       /\ \A n \in Networks :
             ( /\ last'.op = "create_taskhub"
               /\ constraints
               /\ taskhubs[n] # <<>>
               /\ create_taskhub(n) )
             => /\ last'.err = NULL
                /\ last'.ret = taskhub_key(n)
                /\ nodes' = nodes
                /\ taskhubs' = taskhubs]_vars

\* create_taskhub has just returned for a network whose hub carries the
\* weight set after the hub was first created
C11_Witness ==
    /\ constraints
    /\ \E n \in Networks :
          /\ last = Returned("create_taskhub", taskhub_key(n))
          /\ taskhubs[n] = <<OtherHubWeight>>

\* C12: when two clients run create_taskhub for the same network at the
\* same time, neither call raises, both return the same ScopedKey, and
\* exactly one TaskHub of the network exists afterwards (and never more
\* than one in between).
C12_ConcurrentCreate ==
    /\ \A n \in Networks : Len(taskhubs[n]) <= 1
    /\ \A c, o \in Clients :
          ( /\ c # o
            /\ hub_pc[c] = "idle" /\ hub_pc[o] = "idle"
            /\ hub_tx[c].raced /\ hub_tx[o].raced
            /\ hub_tx[c].network = hub_tx[o].network )
          => /\ hub_tx[c].err = NULL /\ hub_tx[o].err = NULL
             /\ hub_tx[c].ret = hub_tx[o].ret
             /\ hub_tx[c].ret = taskhub_key(hub_tx[c].network)
             /\ Len(taskhubs[hub_tx[c].network]) = 1

\* both clients have returned from calls for the same network that were
\* open at the same time
C12_Witness ==
    /\ \A c \in Clients : hub_pc[c] = "idle" /\ hub_tx[c].raced
    /\ hub_tx["c1"].network = hub_tx["c2"].network
    /\ hub_tx["c1"].ret # <<>> /\ hub_tx["c2"].ret # <<>>

\* C13: create_network of a stored network returns the same ScopedKey and
\* leaves nodes and relationships as they are; create_network of a network
\* not yet stored in the scope returns the key of exactly one new network
\* node; the keys of different networks differ.
C13_CreateNetworkIdempotent ==
    [][\A n \in Networks, scope \in Scopes :
         ( last'.op = "create_network" /\ create_network(n, scope) )
         => LET sk == ScopedKey(n, scope)
                an == labelled(nodes, "AlchemicalNetwork")
                an2 == labelled(nodes', "AlchemicalNetwork")
            IN /\ last'.ret = sk
               /\ Cardinality(node_ids(nodes', sk)) = 1
               /\ node_ids(nodes, sk) # {} =>
                      /\ nodes' = nodes
                      /\ depends_on' = depends_on
               /\ node_ids(nodes, sk) = {} =>
                      /\ Cardinality(an2) = Cardinality(an) + 1
                      /\ \A i \in an : nodes'[i] = nodes[i]
               /\ (last.op = "create_network" /\ last.ret # sk) =>
                      node_ids(nodes', last.ret) # node_ids(nodes', sk)]_vars

\* the first network stored was submitted again after the other network
\* had been stored in the same scope
C13_Witness ==
    \E n \in Networks, scope \in Scopes :
        /\ last = Returned("create_network", ScopedKey(n, scope))
        /\ node_ids(nodes, ScopedKey(n, scope)) = {1}
        /\ \E m \in Networks \ {n} : node_ids(nodes, ScopedKey(m, scope)) # {}

\* C14: every (gufe key, scope) has at most one stored node; every stored
\* object has a DEPENDS_ON relationship to the one node of each object it
\* contains, so an object contained in several networks of a scope is
\* stored once; the same object stored under two scopes has two nodes.
C14_ContentAddressed ==
    /\ \A i, j \in DOMAIN nodes :
          (nodes[i].gufe_key = nodes[j].gufe_key /\ nodes[i].scope = nodes[j].scope)
             => i = j
    /\ \A i \in DOMAIN nodes : \A d \in dependencies(nodes[i].gufe_key) :
          /\ Cardinality(node_ids(nodes, ScopedKey(d, nodes[i].scope))) = 1
          /\ \A j \in node_ids(nodes, ScopedKey(d, nodes[i].scope)) :
                <<i, j>> \in depends_on
    /\ \A r \in depends_on : nodes[r[1]].scope = nodes[r[2]].scope
    /\ \A n \in Networks, s1, s2 \in Scopes :
          ( /\ s1 # s2
            /\ last = Returned("create_network", ScopedKey(n, s2))
            /\ node_ids(nodes, ScopedKey(n, s1)) # {} )
          => \A k \in subgraph_keys(n) :
                /\ node_ids(nodes, ScopedKey(k, s2)) # {}
                /\ node_ids(nodes, ScopedKey(k, s1))
                      \cap node_ids(nodes, ScopedKey(k, s2)) = {}

\* a Transformation is referenced by two networks of one scope and is
\* stored under the other scope as well
C14_Witness ==
    \E tf \in Transformations, s1, s2 \in Scopes :
        /\ s1 # s2
        /\ \E j \in node_ids(nodes, ScopedKey(tf, s1)) :
              Cardinality({r \in depends_on : r[2] = j
                             /\ nodes[r[1]].label = "AlchemicalNetwork"}) = 2
        /\ node_ids(nodes, ScopedKey(tf, s2)) # {}

\* C15: after delete_network(N) for a stored network N that has a TaskHub,
\* N is no longer stored and N's TaskHub no longer exists.
C15_DeleteNetwork ==
    [][\A n \in Networks :
         ( /\ last'.op = "delete_network"
           /\ n \in networks
           /\ taskhubs[n] # <<>>
           /\ delete_network(n) )
         => /\ node_ids(nodes', ScopedKey(n, scope_test)) = {}
            /\ taskhubs'[n] = <<>>]_vars

\* C16: delete_network deletes or alters no Transformation and no
\* ChemicalSystem node, and every other stored network decodes (get_gufe)
\* to the same content as before.
C16_DeleteNetworkFrame ==
    [][\A n \in Networks :
         ( last'.op = "delete_network" /\ delete_network(n) )
         => /\ \A i \in labelled(nodes, "Transformation")
                         \cup labelled(nodes, "ChemicalSystem") :
                  Cardinality(node_ids(nodes',
                      ScopedKey(nodes[i].gufe_key, nodes[i].scope))) = 1
            /\ \A m \in Networks \ {n}, scope \in Scopes :
                  get_gufe(nodes', depends_on', ScopedKey(m, scope))
                     = get_gufe(nodes, depends_on, ScopedKey(m, scope))]_vars

\* delete_network was called for a network that has a TaskHub while the
\* other network, which shares a Transformation with it, was stored
C16_Witness ==
    /\ last = Called("delete_network", "ClientError")
    /\ networks = Networks
    /\ \E n \in Networks : Len(taskhubs[n]) = 1

\* C17: dequeue_taskhub_tasks(tasks, hub) removes the ACTIONS relationship
\* from the hub to each given task, so the tasks are no longer listed for
\* the hub, and changes nothing else: the Task nodes, their status,
\* priority and claim, their other relationships and the ACTIONS
\* relationships of other hubs remain.
C17_Dequeue ==
    [][\A t \in Tasks, h \in Networks :
         ( /\ last'.op = "dequeue_taskhub_tasks"
           /\ t \in Listed(h)
           /\ dequeue_taskhub_tasks(<<t>>, h) )
         => /\ t \notin Listed(h)'
            /\ \A u \in Tasks \ {t} : actions'[h][u] = actions[h][u]
            /\ \A g \in Networks \ {h} : actions'[g] = actions[g]
            /\ UNCHANGED <<performs, extends, status, priority, claim,
                           results_in>>]_vars

\* the transitions of the task state machine, and its terminal states
Terminal == {"complete", "cancelled", "invalid", "deleted"}

Transitions ==
    {<<"waiting", "running">>, <<"running", "complete">>,
     <<"running", "error">>, <<"running", "waiting">>}
    \cup ({"waiting", "running", "error"} \X {"cancelled", "invalid", "deleted"})

C19_Complete ==
    [][\A t \in Tasks :
         ( /\ last'.op = "set_task_complete"
           /\ status[t] = "running"
           /\ \E q \in results_in : q[1] = t
           /\ set_task_complete(t) )
         => status'[t] = "complete"]_vars

\* C20: get_task_transformation(t) fails with KeyError for an unknown
\* task; otherwise it returns t's Transformation with null when t extends
\* nothing or the task it extends has no stored result, and with a result
\* stored for p by set_task_result when t extends p and p has one.
C20_TaskTransformation ==
    \A t \in TaskIds :
        LET r == task_transformation(t) IN
        /\ t \notin Tasks => r.err = "KeyError"
        /\ t \in Tasks =>
              LET p == extends[t]
                  stored == {nodes[q[2]].gufe_key :
                                q \in {x \in results_in : x[1] = p}}
              IN /\ r.err = NULL
                 /\ r.ret[1] = performs[t]
                 /\ (p = NoTask \/ stored = {}) => r.ret[2] = NULL
                 /\ (p # NoTask /\ stored # {}) => r.ret[2] \in stored

\* the stored ObjectStoreRef nodes with the content ref in the tasks' scope
ResultNodes(ref) ==
    {i \in DOMAIN nodes : /\ nodes[i].label = "ObjectStoreRef"
                          /\ nodes[i].gufe_key = ref
                          /\ nodes[i].scope = scope_test}

\* C21: set_task_result is idempotent per (task, result content): however
\* often it was called with the same task and ObjectStoreRef, there is
\* exactly one ObjectStoreRef node for that content in the task's scope
\* and exactly one RESULTS_IN relationship from the task to it, and every
\* such call returns the same ScopedKey, the one of the ref in that scope.
C21_SetTaskResultIdempotent ==
    [][\A t \in Tasks, ref \in ObjectStoreRefs :
         ( /\ last'.op = "set_task_result"
           /\ set_task_result(t, ref) )
         => /\ Cardinality(ResultNodes(ref)') = 1
            /\ Cardinality({q \in results_in' :
                               q[1] = t /\ q[2] \in ResultNodes(ref)'}) = 1
            /\ last'.ret = ScopedKey(ref, scope_test)
            /\ (\E i \in ResultNodes(ref) : <<t, i>> \in results_in)
                  => /\ nodes' = nodes
                     /\ results_in' = results_in]_vars

\* C21 witness: the same result was pushed twice for a task that also has
\* another result
C21_Witness ==
    /\ last.op = "set_task_result"
    /\ \E t \in Tasks :
          /\ \A ref \in ObjectStoreRefs :
                \E q \in results_in : q[1] = t /\ q[2] \in ResultNodes(ref)
          /\ Cardinality({q \in results_in : q[1] = t}) = 2

\* the combinations of arguments set_task_weights is to reject: a list of
\* tasks without a scalar weight, a dict together with a scalar weight
Inconsistent(c) ==
    \/ c.kind = "list" /\ c.weight = NoWeight
    \/ c.kind = "dict" /\ c.weight # NoWeight

\* C22: set_task_weights called with a list of tasks and no scalar weight,
\* or with a dict {task: weight} and a scalar weight, raises ValueError and
\* leaves the weight of every ACTIONS relationship (and the rest of the
\* database) as it was.
C22_WeightsRejected ==
    [][\A c \in WeightCalls, h \in Networks :
         ( /\ last'.op = "set_task_weights"
           /\ Inconsistent(c)
           /\ set_task_weights(c.kind, c.wmap, h, c.weight) )
         => /\ last'.err = "ValueError"
            /\ actions' = actions
            /\ UNCHANGED dbvars]_vars

\* C22 witness: a call was rejected while a task was queued on a hub
C22_Witness ==
    /\ last.op = "set_task_weights"
    /\ last.err = "ValueError"
    /\ \E h \in Networks, t \in Tasks : actions[h][t] # <<>>

NoDuplicates(seq) == \A i, j \in DOMAIN seq : i # j => seq[i] # seq[j]

\* C23: add_scope and remove_scope keep a scopes list free of duplicates,
\* starting from the empty list an entity is created with: add_scope of a
\* scope the list has leaves the list as it is, add_scope of a scope it has
\* not appends exactly that scope; what list_scopes returns is the scopes
\* of the stored list: it is empty after the creation, gains the added
\* scope with add_scope and loses the removed one with remove_scope.
C23_AddScopeIdempotent ==
    [][\A cls \in IdentityClasses, identifier \in Identifiers,
          scope \in ScopeValues :
         LET ids == entity_ids(entities, cls, identifier)
             x == scope_str(scope)
             before == list_scopes_q(entities, identifier, cls)
             after == list_scopes_q(entities', identifier, cls)
         IN
         /\ ( /\ last'.op = "add_scope"
              /\ add_scope(identifier, cls, scope) )
            => /\ \A i \in ids :
                    /\ x \in Range(entities[i].scopes)
                          => entities'[i].scopes = entities[i].scopes
                    /\ x \notin Range(entities[i].scopes)
                          => entities'[i].scopes = Append(entities[i].scopes, x)
                    /\ NoDuplicates(entities[i].scopes)
                          => NoDuplicates(entities'[i].scopes)
               /\ Range(after) = Range(before) \cup
                                    (IF ids # {} THEN {scope} ELSE {})
         /\ ( /\ last'.op = "remove_scope"
              /\ remove_scope(identifier, cls, scope) )
            => /\ \A i \in ids : NoDuplicates(entities[i].scopes)
                                     => NoDuplicates(entities'[i].scopes)
               /\ Range(after) = Range(before) \ {scope}
         /\ ( /\ last'.op = "create_credentialed_entity"
              /\ \E hashed_key \in HashedKeys :
                    create_credentialed_entity(cls, identifier, hashed_key, <<>>) )
            => after = <<>>
         /\ ( /\ last'.op = "list_scopes"
              /\ list_scopes(identifier, cls) )
            => /\ last'.err = NULL
               /\ \A i \in ids :
                     /\ Range(last'.ret) =
                           {sv \in ScopeValues :
                               scope_str(sv) \in Range(entities[i].scopes)}
                     /\ Len(last'.ret) = Len(entities[i].scopes)
         /\ \A i \in DOMAIN entities' : NoDuplicates(entities'[i].scopes)]_vars

\* C23 witness: a scope was added to an entity that now has two scopes
C23_Witness ==
    /\ last.op = "add_scope"
    /\ \E i \in DOMAIN entities : Len(entities[i].scopes) = 2

\* C24: remove_scope(identifier, type, s) raises nothing and leaves the
\* entity with the scopes it had other than s, in the order they had; when
\* the list does not have s nothing changes; no other entity is touched.
C24_RemoveScope ==
    [][\A cls \in IdentityClasses, identifier \in Identifiers,
          scope \in ScopeValues :
         ( /\ last'.op = "remove_scope"
           /\ remove_scope(identifier, cls, scope) )
         => LET ids == entity_ids(entities, cls, identifier)
                x == scope_str(scope) IN
            /\ last'.err = NULL
            /\ DOMAIN entities' = DOMAIN entities
            /\ \A i \in DOMAIN entities :
                  IF i \in ids
                    THEN /\ x \notin Range(entities'[i].scopes)
                         /\ entities'[i].scopes =
                               SelectSeq(entities[i].scopes, LAMBDA y : y # x)
                         /\ x \notin Range(entities[i].scopes)
                               => entities'[i] = entities[i]
                         /\ entities'[i].hashed_key = entities[i].hashed_key
                    ELSE entities'[i] = entities[i]]_vars

\* C24 witness: a scope was removed and the entity is left with another
C24_Witness ==
    /\ last.op = "remove_scope"
    /\ \E i \in DOMAIN entities : Len(entities[i].scopes) = 1

\* C30: create_credentialed_entity is an upsert on (class, identifier):
\* there is never more than one node per (class, identifier); after the
\* call there is exactly one, get_credentialed_entity returns the entity
\* that was supplied (its hashed_key and its scopes), and the entities of
\* the other (class, identifier) are as before.
C30_Upsert ==
    [][\A cls \in IdentityClasses, identifier \in Identifiers :
         /\ Cardinality(entity_ids(entities', cls, identifier)) <= 1
         /\ \A hashed_key \in HashedKeys, scopes \in ScopeLists :
              ( /\ last'.op = "create_credentialed_entity"
                /\ create_credentialed_entity(cls, identifier, hashed_key, scopes) )
              => /\ Cardinality(entity_ids(entities', cls, identifier)) = 1
                 /\ credentialed_entity(entities', identifier, cls) =
                       [err |-> NULL,
                        ret |-> <<EntityNode(cls, identifier, hashed_key, scopes)>>]
                 /\ \A c \in IdentityClasses \ {cls} :
                       credentialed_entity(entities', identifier, c) =
                          credentialed_entity(entities, identifier, c)]_vars

\* C30 witness: entities of both classes are stored after a creation, one
\* of them with a scope and the other credential
C30_Witness ==
    /\ last.op = "create_credentialed_entity"
    /\ Len(entities) = 2
    /\ \E i \in DOMAIN entities :
          /\ entities[i].scopes # <<>>
          /\ entities[i].hashed_key = "a string for a key"

\* C25: codec round trip: every object whose attributes are scalars,
\* lists or tuples of one primitive type (also empty ones), dicts (also
\* empty ones), GufeTokenizables, dicts of them or lists of them can be
\* stored, and get_gufe of a stored object decodes, whatever the order in
\* which the relationships are traversed, a shallow dict equal to the
\* object's: no attribute lost, duplicated or reordered.
C25_RoundTrip ==
    /\ last.op = "merge_gufe" => last.err = NULL
    /\ \A k \in DOMAIN gufe_attrs.nodes : \A order \in Orders(k) :
          SameDict(node_to_dct(k, order), to_shallow_dict(k))

\* the relationships of the node that carry an index for the attribute
indexed_edges(k, a) ==
    {r \in edges_of(k) : r.attribute = a /\ r.by = "index"}

\* C26: a list of GufeTokenizables is decoded the same whatever the order
\* in which the indexed DEPENDS_ON relationships of the node are
\* traversed: the result has one element per indexed relationship, and
\* its element at position i + 1 is the object of the relationship with
\* index i.
C26_IndexOrder ==
    \A k \in DOMAIN gufe_attrs.nodes : \A order \in Orders(k) :
        LET dct == node_to_dct(k, order) IN
        \A a \in {r.attribute : r \in {e \in edges_of(k) : e.by = "index"}} :
            /\ a \in DOMAIN dct
            /\ Len(dct[a].items) = Cardinality(indexed_edges(k, a))
            /\ \A r \in indexed_edges(k, a) :
                  /\ r.index + 1 \in DOMAIN dct[a].items
                  /\ dct[a].items[r.index + 1] =
                        from_shallow_dict(node_to_dct(r.end, SetToSeq(edges_of(r.end))))

\* C27: a queue_taskhub_tasks call that raises because a task of its list
\* is not in the hub's network leaves the database as it was before the
\* call: no ACTIONS relationship was created for any task of the list,
\* the tasks in front of the failing one included.
C27_QueueAllOrNothing ==
    [][\A ts \in TaskLists, h \in Networks :
         ( /\ last'.op = "queue_taskhub_tasks"
           /\ last'.err = "ValueError"
           /\ queue_taskhub_tasks(ts, h) )
         => actions' = actions]_vars

\* C28: claim_taskhub_tasks is all-or-nothing: while the call of a worker
\* runs its iterations no status and no claim changes, and when the call
\* is aborted at any iteration nothing changes either: no task it selected
\* in an earlier iteration is claimed by it, and every task that was
\* waiting on the hub when the call began is waiting there for the retry,
\* unless another worker has claimed it.
C28_ClaimAllOrNothing ==
    [][\A w \in Workers :
         /\ ( /\ pc[w] # "idle"
              /\ pc'[w] # "idle"
              /\ tx'[w] # tx[w] )
            => status' = status /\ claim' = claim
         /\ ( /\ pc[w] # "idle"
              /\ claim_rollback(w) )
            => /\ status' = status /\ claim' = claim
               /\ \A t \in tx[w].writes : claim'[t] # w
               /\ \A t \in tx[w].pool0 :
                     \/ /\ actions'[tx[w].taskhub][t] # <<>>
                        /\ tx_status(w, t)' = "waiting"
                     \/ claim'[t] \in Workers \ {w}]_vars

\* C28 witness: a call with count 2 has selected a task in its first
\* iteration and is at its second; the task is still waiting and unclaimed
\* for everyone else
C28_Witness ==
    \E w \in Workers : \E t \in tx[w].writes :
        /\ pc[w] = "taskpool"
        /\ tx[w].count = 2
        /\ status[t] = "waiting"
        /\ claim[t] = NULL

\* C29: create_taskhub drops the failure of creating a hub that exists and
\* no other: whenever it returns a ScopedKey the network has a TaskHub
\* (node and PERFORMS relationship), and an engine failure during the
\* insert raises to the caller.
C29_OnlyExistsSwallowed ==
    [][\A n \in Networks :
         /\ ( /\ last'.op = "create_taskhub"
              /\ last'.err = NULL
              /\ last'.ret = taskhub_key(n) )
            => taskhubs'[n] # <<>>
         /\ ( /\ last'.op = "create_taskhub"
              /\ n \in networks
              /\ taskhubs[n] = <<>>
              /\ create_taskhub_rollback(n) )
            => last'.err \in EngineErrors]_vars

\* C32: claiming does not dequeue: a step of claim_taskhub_tasks changes
\* nothing but the status and the claim of the tasks the call returns; every
\* ACTIONS relationship, weight and priority stays, so the returned tasks
\* are still listed by get_taskhub_tasks, and get_taskhub_unclaimed_tasks
\* gives the hub's tasks minus the tasks claims have returned.
C32_ClaimKeepsQueue ==
    [][/\ \A w \in Workers :
            (pc'[w] # pc[w] \/ tx'[w] # tx[w]) =>
                /\ actions' = actions
                /\ priority' = priority
                /\ taskhubs' = taskhubs
                /\ performs' = performs
                /\ extends' = extends
                /\ \A t \in Tasks :
                       (status'[t] # status[t] \/ claim'[t] # claim[t]) =>
                           /\ t \in Entries(tx[w].tasks)
                           /\ status'[t] = "running"
                           /\ claim'[t] = w
                /\ pc[w] = "commit" =>
                       \A h \in Networks : tx[w].taskhub = h =>
                           /\ Entries(tx[w].tasks) \subseteq Listed(h)'
                           /\ get_taskhub_tasks(h)' = get_taskhub_tasks(h)
       /\ \A h \in Networks :
            get_taskhub_unclaimed_tasks(h)' =
                {e \in get_taskhub_tasks(h)' : returned'[e[1]] = <<>>}]_vars

\* a claim returned one of two tasks queued on a hub: both are listed and
\* only the other one is unclaimed
C32_Witness ==
    \E h \in Networks : \E t, u \in Tasks :
        /\ t # u
        /\ returned[t] # <<>>
        /\ claim[t] # NULL
        /\ {t, u} \subseteq Listed(h)
        /\ {e[1] : e \in get_taskhub_unclaimed_tasks(h)} = {u}
        /\ pc["w1"] = "idle"

\* C33: set_task_weights(tasks, hub) changes the weight on the ACTIONS
\* relationships between that hub and the given tasks and nothing else:
\* the weights of other tasks on the hub, of the same tasks on other hubs,
\* the hub's weight and the task fields stay; for a task not queued on the
\* hub it does nothing, raises nothing and creates no relationship, and
\* get_task_weights leaves such a task out of its dict.
C33_WeightsFrame ==
    [][\A c \in WeightCalls, h \in Networks :
         ( /\ last'.op = "set_task_weights"
           /\ ~Inconsistent(c)
           /\ set_task_weights(c.kind, c.wmap, h, c.weight) )
         => LET given == DOMAIN c.wmap
                queued == {t \in given : actions[h][t] # <<>>}
            IN
            /\ last'.err = NULL
            /\ \A g \in Networks \ {h} : actions'[g] = actions[g]
            /\ \A t \in TaskIds \ given : actions'[h][t] = actions[h][t]
            /\ \A t \in given :
                   /\ Len(actions'[h][t]) = Len(actions[h][t])
                   /\ \A i \in DOMAIN actions'[h][t] :
                          actions'[h][t][i] = c.wmap[t]
            /\ taskhubs' = taskhubs
            /\ UNCHANGED <<status, priority, claim, performs, extends>>
            /\ \A f \in get_task_weights(given, h)' :
                   /\ DOMAIN f = queued
                   /\ \A t \in queued : f[t] = c.wmap[t]]_vars

\* a call has set the weight of a task on one of the two hubs it is queued
\* on, while another task is not queued on that hub
C33_Witness ==
    /\ last.op = "set_task_weights"
    /\ last.err = NULL
    /\ \E h, g \in Networks : \E t, u \in Tasks :
          /\ h # g /\ t # u
          /\ actions[h][t] # <<>>
          /\ actions[g][t] # <<>>
          /\ actions[h][t][1] # actions[g][t][1]
          /\ actions[h][u] = <<>>

\* C34: no starvation within a tier: when a claim reads the pool, every
\* waiting task of the hub at the minimum priority whose weight is positive
\* is a possible outcome of the selection; and the iteration yields null
\* only if the hub has no waiting task or every waiting task at the minimum
\* priority has weight 0.
C34_NoStarvation ==
    [][\A w \in Workers : \A h \in Networks :
         (pc[w] = "taskpool" /\ tx[w].taskhub = h) =>
            /\ \A t \in Tier(w, h) :
                   ~ZeroWeight(h, t) =>
                       ENABLED (claim_taskpool(w) /\ tx'[w].chosen = t)
            /\ ( /\ (pc'[w] # pc[w] \/ tx'[w] # tx[w])
                 /\ pc'[w] # "idle"
                 /\ ~(pc'[w] = "claim" /\ tx'[w].chosen # NoTask) )
               => \/ waiting_tasks(w, h) = {}
                  \/ \A t \in Tier(w, h) : ZeroWeight(h, t)]_vars

\* C35: a task returned by a claim is never returned again by a later
\* claim of any hub, whatever is called in between: it is never selected
\* again, each call's list names it at most once, and no operation takes a
\* running task back to 'waiting'.
C35_DispatchedOnce ==
    [][\A t \in Tasks :
         /\ Len(returned'[t]) <= 1
         /\ status[t] = "running" => status'[t] # "waiting"
         /\ returned[t] # <<>> => status'[t] = "running"
         /\ \A w \in Workers :
               /\ (Selects(w) /\ tx'[w].chosen = t) =>
                      returned[t] = <<>> /\ t \notin Entries(tx[w].tasks)
               /\ Distinct(tx'[w].tasks)]_vars

\* a task queued on both hubs was returned by a claim, set_task_waiting was
\* called, and a later claim on a hub that actions the task is about to
\* return null
C35_Witness ==
    \E t \in Tasks :
        /\ returned[t] # <<>>
        /\ \A h \in Networks : actions[h][t] # <<>>
        /\ last.op = "set_task_waiting"
        /\ pc["w1"] = "commit"
        /\ tx["w1"].tasks = <<NoTask>>

\* C36: create_task on an existing Transformation (and an existing
\* predecessor, if one is given) creates a new Task, distinct from every
\* earlier one, with status 'waiting', no claim, PERFORMS to exactly that
\* Transformation, EXTENDS to the predecessor iff one was given, and no
\* ACTIONS relationship, so that no claim can select it before it is queued;
\* with an unknown transformation or predecessor it raises KeyError and
\* creates nothing.
C36_CreateTask ==
    [][/\ \A tf \in Transformations, p \in TaskIds \cup {NoTask} :
            (last'.op = "create_task" /\ create_task(tf, p)) =>
                LET n == Len(status) + 1 IN
                IF transformation_exists(tf) /\ (p = NoTask \/ p \in Tasks)
                  THEN /\ last'.err = NULL
                       /\ n \notin Tasks
                       /\ DOMAIN status' = Tasks \cup {n}
                       /\ status'[n] = "waiting"
                       /\ claim'[n] = NULL
                       /\ priority'[n] = DefaultPriority
                       /\ performs'[n] = tf
                       /\ extends'[n] = p
                       /\ \A t \in Tasks :
                              /\ status'[t] = status[t]
                              /\ claim'[t] = claim[t]
                              /\ priority'[t] = priority[t]
                              /\ performs'[t] = performs[t]
                              /\ extends'[t] = extends[t]
                       /\ \A h \in Networks :
                              /\ actions'[h][n] = <<>>
                              /\ \A w \in Workers : n \notin waiting_tasks(w, h)'
                       /\ UNCHANGED <<graphvars, taskhubs, results_in, actions,
                                      returned>>
                  ELSE /\ last'.err = "KeyError"
                       /\ UNCHANGED dbvars
       /\ \A w \in Workers : \A h \in Networks :
            (Selects(w) /\ tx[w].taskhub = h /\ tx'[w].chosen # NoTask) =>
                actions[h][tx'[w].chosen] # <<>>]_vars

\* a second task was created for the same Transformation, extending the
\* first one, which a claim has returned
C36_Witness ==
    /\ last.op = "create_task"
    /\ last.err = NULL
    /\ Len(status) = 2
    /\ performs[1] = performs[2]
    /\ extends[2] = 1
    /\ returned[1] # <<>>
    /\ \A h \in Networks : actions[h][2] = <<>>

\* C37: delete_network of a stored network that has no TaskHub raises
\* nothing and deletes the network: the deletion of the hub applies only
\* when there is one.
C37_DeleteNetworkNoHub ==
    [][\A n \in Networks :
         ( /\ last'.op = "delete_network"
           /\ n \in networks
           /\ taskhubs[n] = <<>>
           /\ delete_network(n) )
         => /\ last'.err = NULL
            /\ node_ids(nodes', ScopedKey(n, scope_test)) = {}]_vars

\* C38: an object that holds the same object twice (under two attributes,
\* under two keys of a dict or at two positions of a list) round-trips with
\* every reference: each reference is stored as a DEPENDS_ON relationship
\* of its own, and the decoded shallow dict has the object under each of
\* the attributes, keys and positions, whatever the order of traversal.
C38_RepeatedReference ==
    \A k \in GufeRepeats \cap DOMAIN gufe_attrs.nodes :
        /\ Cardinality(edges_of(k)) = 2
        /\ \A order \in Orders(k) :
               SameDict(node_to_dct(k, order), to_shallow_dict(k))

====
